---- MODULE Spec2Model ----
(***************************************************************************)
(* Model of the marketplace commission service (src/app.py): the column    *)
(* resolver / row normalizer, and the hot-reload cache of per-marketplace  *)
(* snapshots.                                                              *)
(*                                                                         *)
(* Text is a sequence of one-character strings, so that stripping and      *)
(* number extraction are computed and not assumed.  Column names are TLA+  *)
(* strings; a Turkish letter is written as "~" followed by its ASCII base  *)
(* ("~Ur~un Grubu" is the column the source spells with U-umlaut), which   *)
(* keeps it distinct from the plain-ASCII candidates ("Urun Grubu").       *)
(*                                                                         *)
(* A commission value is a natural number of 1/10000 units (12.5 is        *)
(* 125000); EmptyStr and NaNf stand for the two "missing" values a row     *)
(* can carry ("" after fillna, float NaN after to_numeric).                *)
(***************************************************************************)
EXTENDS Integers, Sequences, FiniteSets, TLC

VARIABLES
  nPc, nMp, nRaw, nOut, nLoad,   \* the normalizer applied to one raw table
  files,                         \* the source file of each marketplace (the environment)
  mtimes,                        \* _mtimes: the recorded modification time per marketplace
  data,                          \* _data: per marketplace, the list object it refers to (0: no key)
  heap,                          \* the row sequence each list object holds
  held,                          \* the list object a reader obtained, and its rows when obtained
  thr,                           \* each worker's position in refresh_if_changed and its locals
  touched,                       \* a file event happened since the latest refresh call began
  events,                        \* number of file events so far
  cPc, cRows, cArgs, cOut        \* one stateless call: its snapshot, arguments and result

normVars == <<nPc, nMp, nRaw, nOut, nLoad>>
cacheVars == <<files, mtimes, data, heap, held, thr, touched, events>>
callVars == <<cPc, cRows, cArgs, cOut>>
vars == <<nPc, nMp, nRaw, nOut, nLoad, files, mtimes, data, heap, held, thr, touched, events,
          cPc, cRows, cArgs, cOut>>

(***************************************************************************)
(* Bounds of the model.                                                    *)
(***************************************************************************)
MaxRows == 2
NMarkets == 2
NConcMarkets == 1
MaxMtime == 2
MaxFileEvents == 2
MaxColumn == 3
MaxSnapshot == 2
MaxAmount == 40

(***************************************************************************)
(* Static configuration: the marketplaces and their candidate lists.       *)
(***************************************************************************)
MarketOrder == <<"trendyol", "hepsiburada", "n11", "amazon", "ciceksepeti", "pttavm">>

Markets == {MarketOrder[i] : i \in DOMAIN MarketOrder}

ColumnsCandidates(mp) ==
  CASE mp = "trendyol" ->
         [category      |-> <<"Ana Kategori", "Kategori">>,
          sub_category  |-> <<"Kategori", "Alt Kategori">>,
          product_group |-> <<"~Ur~un Grubu", "Urun Grubu", "Urun_Grubu">>,
          commission    |-> <<"Komisyon_%_KDV_Dahil", "komisyon">>]
    [] mp = "hepsiburada" ->
         [category      |-> <<"Ana Kategori", "Kategori">>,
          sub_category  |-> <<"Kategori", "Alt Kategori">>,
          product_group |-> <<"~Ur~un Grubu", "Urun Grubu", "Urun_Grubu">>,
          commission    |-> <<"Komisyon_%_KDV_Dahil", "Uygulanan_Komisyon_%_KDV_Dahil", "komisyon">>]
    [] mp = "n11" ->
         [category      |-> <<"Kategori", "Ana Kategori">>,
          sub_category  |-> <<"Alt Kategori", "Kategori">>,
          product_group |-> <<"~Ur~un Grubu", "Urun Grubu", "Urun_Grubu">>,
          commission    |-> <<"Komisyon_%_KDV_Dahil", "komisyon">>]
    [] mp = "amazon" ->
         [category      |-> <<"Kategori">>,
          sub_category  |-> <<"Alt Kategori">>,
          product_group |-> <<"~Ur~un Grubu", "Kategori">>,
          commission    |-> <<"Komisyon_%_KDV_Dahil", "Sat~i~s Komisyonu (+KDV)">>]
    [] mp = "ciceksepeti" ->
         [category      |-> <<"Kategori", "Ana Kategori">>,
          sub_category  |-> <<"Alt Kategori", "Kategori">>,
          product_group |-> <<"~Ur~un Grubu", "Kategori">>,
          commission    |-> <<"Komisyon_%_KDV_Dahil", "Komisyon Oran~i", "Revize Komisyon Oran~i">>]
    [] mp = "pttavm" ->
         [category      |-> <<"Kategori", "Ana Kategori">>,
          sub_category  |-> <<"Alt Kategori">>,
          product_group |-> <<"~Ur~un Grubu", "Alt Kategori", "Kategori">>,
          commission    |-> <<"Komisyon_%_KDV_Dahil", "Komisyon", "Komisyon Oranlar~i">>]

Wanted == <<"Kategori", "Alt Kategori", "~Ur~un Grubu", "Komisyon_%_KDV_Dahil">>

(***************************************************************************)
(* Cells and text.                                                         *)
(***************************************************************************)
Range(s) == {s[i] : i \in DOMAIN s}

\* A missing cell of the data frame (float NaN).
NaN == <<"NaN">>

\* Missing commission values of a normalized row.
EmptyStr == 0 - 1
NaNf == 0 - 2

Scale == 100 * 100

Digits == <<"0", "1", "2", "3", "4", "5", "6", "7", "8", "9">>

IsDigit(ch) == ch \in Range(Digits)

DigitVal(ch) == (CHOOSE i \in DOMAIN Digits : Digits[i] = ch) - 1

IsSpace(ch) == ch = " "

\* Series.astype(str): a NaN cell becomes the three letters "nan".
AsStr(cell) == IF cell = NaN THEN <<"n", "a", "n">> ELSE cell

RECURSIVE LStrip(_)
LStrip(s) == IF s # <<>> /\ IsSpace(Head(s)) THEN LStrip(Tail(s)) ELSE s

RECURSIVE RStrip(_)
RStrip(s) ==
  IF s # <<>> /\ IsSpace(s[Len(s)]) THEN RStrip(SubSeq(s, 1, Len(s) - 1)) ELSE s

\* str.strip()
Strip(s) == RStrip(LStrip(s))

\* str.replace(",", ".")
CommaToDot(s) == [i \in DOMAIN s |-> IF s[i] = "," THEN "." ELSE s[i]]

\* Last index of the run of digits of s that starts at index i.
RECURSIVE DigitRunEnd(_, _)
DigitRunEnd(s, i) ==
  IF i + 1 <= Len(s) /\ IsDigit(s[i + 1]) THEN DigitRunEnd(s, i + 1) ELSE i

\* Value of the digit string s[i..j].
RECURSIVE DigitsValue(_, _, _)
DigitsValue(s, i, j) ==
  IF j < i THEN 0 ELSE DigitsValue(s, i, j - 1) * 10 + DigitVal(s[j])

\* The fraction .s[i..j] in units of 1/Scale (digits past the fourth are cut).
FractionValue(s, i, j) ==
  LET n == j - i + 1
      d(k) == IF k <= n THEN DigitVal(s[i + k - 1]) ELSE 0
  IN d(1) * 1000 + d(2) * 100 + d(3) * 10 + d(4)

\* re.search(r"(\d+(?:\.\d+)?)", s) on the stripped, comma-replaced text.
ExtractNumber(x) ==
  LET s == CommaToDot(Strip(x))
      starts == {i \in DOMAIN s : IsDigit(s[i])}
  IN IF starts = {} THEN NaNf
     ELSE LET i == CHOOSE a \in starts : \A b \in starts : a <= b
              j == DigitRunEnd(s, i)
              hasFrac == j + 2 <= Len(s) /\ s[j + 1] = "." /\ IsDigit(s[j + 2])
          IN DigitsValue(s, i, j) * Scale
               + (IF hasFrac THEN FractionValue(s, j + 2, DigitRunEnd(s, j + 2)) ELSE 0)

\* pd.to_numeric(errors="coerce") of one text cell: a plain decimal literal, or NaN.
ToNumeric(cell) ==
  IF cell = NaN THEN NaNf
  ELSE LET s == Strip(cell)
       IN IF s = <<>> \/ ~IsDigit(s[1]) THEN NaNf
          ELSE LET j == DigitRunEnd(s, 1)
               IN IF j = Len(s) THEN DigitsValue(s, 1, j) * Scale
                  ELSE IF s[j + 1] = "." /\ j + 2 <= Len(s) /\ IsDigit(s[j + 2])
                          /\ DigitRunEnd(s, j + 2) = Len(s)
                       THEN DigitsValue(s, 1, j) * Scale + FractionValue(s, j + 2, Len(s))
                       ELSE NaNf

(***************************************************************************)
(* Scale normalization.                                                    *)
(***************************************************************************)
NotNa(vals) == SelectSeq(vals, LAMBDA v : v # NaNf)

RECURSIVE Insert(_, _)
Insert(v, s) ==
  IF s = <<>> THEN <<v>>
  ELSE IF v <= Head(s) THEN <<v>> \o s ELSE <<Head(s)>> \o Insert(v, Tail(s))

RECURSIVE Sorted(_)
Sorted(s) == IF s = <<>> THEN <<>> ELSE Insert(Head(s), Sorted(Tail(s)))

\* Series.quantile(0.95) <= 1.0, with pandas' linear interpolation between the
\* two order statistics around position (n - 1) * 0.95.
Quantile95AtMostOne(vals) ==
  LET s == Sorted(NotNa(vals))
      n == Len(s)
      h == (n - 1) * 95
      lo == (h \div 100) + 1
      hi == IF lo + 1 <= n THEN lo + 1 ELSE lo
      f == h % 100
  IN s[lo] * 100 + f * (s[hi] - s[lo]) <= 100 * Scale

\* The mutated form of FixScale: the column is multiplied whatever its percentile.
FixScaleAlways(vals) ==
  [i \in DOMAIN vals |-> IF vals[i] = NaNf THEN NaNf ELSE vals[i] * 100]

\* ser * 100.0 when some value is present and the 95th percentile is <= 1.0
FixScale(vals) ==
  IF Len(NotNa(vals)) > 0 /\ Quantile95AtMostOne(vals)
  THEN [i \in DOMAIN vals |-> IF vals[i] = NaNf THEN NaNf ELSE vals[i] * 100]
  ELSE vals

(***************************************************************************)
(* Column resolution and row normalization.                                *)
(***************************************************************************)
\* The result of _pick_first_present followed by the caller's `or ""`:
\* the first candidate that is a column, "" when there is none.
NoCol == ""

RECURSIVE PickLastPresent(_, _)
PickLastPresent(cols, candidates) ==
  IF candidates = <<>> THEN NoCol
  ELSE IF candidates[Len(candidates)] \in cols THEN candidates[Len(candidates)]
  ELSE PickLastPresent(cols, SubSeq(candidates, 1, Len(candidates) - 1))

RECURSIVE PickFirstPresent(_, _)
PickFirstPresent(cols, candidates) ==
  IF candidates = <<>> THEN NoCol
  ELSE IF Head(candidates) \in cols THEN Head(candidates)
  ELSE PickFirstPresent(cols, Tail(candidates))

\* The mutated form of KeepRow: no row is dropped.
KeepRowAlways(r) == TRUE

\* out[(Kategori != "") | (Alt Kategori != "") | (Urun Grubu != "")]
KeepRow(r) == r.Kategori # <<>> \/ r.AltKategori # <<>> \/ r.UrunGrubu # <<>>

\* DataFrame.drop_duplicates(): the first occurrence of every row, in order.
RECURSIVE DropDuplicates(_)
DropDuplicates(rows) ==
  IF rows = <<>> THEN <<>>
  ELSE LET init == DropDuplicates(SubSeq(rows, 1, Len(rows) - 1))
           last == rows[Len(rows)]
       IN IF last \in Range(init) THEN init ELSE Append(init, last)

\* DataFrame.fillna(""): a missing commission becomes the empty string.
FillNa(rows) ==
  [i \in DOMAIN rows |->
     [rows[i] EXCEPT !.Komisyon = IF @ = NaNf THEN EmptyStr ELSE @]]

\* The outcome of a normalization: err names what did not resolve ("" on success).
Raises(what) == [err |-> what, rows |-> <<>>]

Returns(rows) == [err |-> "", rows |-> rows]

UnresolvedEitherMissing(cat_col, sub_col, grp_col) ==
  IF grp_col = NoCol THEN "product_group"
  ELSE IF cat_col = NoCol \/ sub_col = NoCol THEN "category"
  ELSE ""

Unresolved(cat_col, sub_col, grp_col) ==
  IF grp_col = NoCol THEN "product_group"
  ELSE IF cat_col = NoCol /\ sub_col = NoCol THEN "category"
  ELSE ""

\* The mutated form of TwoColumns: category and sub-category are never taken
\* from two columns.
TwoColumnsNever(cat_col, sub_col) == FALSE

\* if cat_col and sub_col and cat_col != sub_col
TwoColumns(cat_col, sub_col) == cat_col # NoCol /\ sub_col # NoCol /\ cat_col # sub_col

NormalizeToFlat4(df, candidates) ==
  LET cat_col == PickFirstPresent(df.cols, candidates.category)
      sub_col == PickFirstPresent(df.cols, candidates.sub_category)
      grp_col == PickFirstPresent(df.cols, candidates.product_group)
      com_col == PickFirstPresent(df.cols, candidates.commission)
      missing == Unresolved(cat_col, sub_col, grp_col)
      both == TwoColumns(cat_col, sub_col)
      use_col == IF cat_col # NoCol THEN cat_col ELSE sub_col
      vals == IF com_col # NoCol
              THEN FixScale([i \in DOMAIN df.rows |-> ExtractNumber(AsStr(df.rows[i][com_col]))])
              ELSE [i \in DOMAIN df.rows |-> NaNf]
      out == [i \in DOMAIN df.rows |->
                [Kategori    |-> IF both THEN Strip(AsStr(df.rows[i][cat_col]))
                                 ELSE Strip(AsStr(df.rows[i][use_col])),
                 AltKategori |-> IF both THEN Strip(AsStr(df.rows[i][sub_col])) ELSE <<>>,
                 UrunGrubu   |-> Strip(AsStr(df.rows[i][grp_col])),
                 Komisyon    |-> vals[i]]]
  IN IF missing # "" THEN Raises(missing)
     ELSE Returns(DropDuplicates(SelectSeq(out, KeepRow)))

\* df[wanted] with the commission column scale-fixed; text cells are taken as
\* they are (no strip), missing cells become "".
CanonicalRows(df) ==
  LET vals == FixScale([i \in DOMAIN df.rows |-> ToNumeric(df.rows[i][Wanted[4]])])
      txt(c) == IF c = NaN THEN <<>> ELSE c
  IN [i \in DOMAIN df.rows |->
        [Kategori    |-> txt(df.rows[i][Wanted[1]]),
         AltKategori |-> txt(df.rows[i][Wanted[2]]),
         UrunGrubu   |-> txt(df.rows[i][Wanted[3]]),
         Komisyon    |-> vals[i]]]

LoadCsvNormalized(df, mp_key) ==
  IF Range(Wanted) \subseteq df.cols
  THEN Returns(CanonicalRows(df))
  ELSE LET res == NormalizeToFlat4(df, ColumnsCandidates(mp_key))
       IN IF res.err # "" THEN res ELSE Returns(FillNa(res.rows))

(***************************************************************************)
(* Raw tables given to the normalizer.  A cell's text names its column and *)
(* its row kind, so a normalized value shows the column it was read from.  *)
(***************************************************************************)
ColumnOrder ==
  <<"Ana Kategori", "Kategori", "Alt Kategori", "~Ur~un Grubu", "Urun Grubu",
    "Urun_Grubu", "Komisyon_%_KDV_Dahil", "komisyon", "Uygulanan_Komisyon_%_KDV_Dahil",
    "Sat~i~s Komisyonu (+KDV)", "Komisyon Oran~i", "Revize Komisyon Oran~i",
    "Komisyon", "Komisyon Oranlar~i">>

AllColumns == Range(ColumnOrder)

CommissionColumns ==
  UNION {Range(ColumnsCandidates(mp).commission) : mp \in Markets}

GroupOnlyColumns == {"~Ur~un Grubu", "Urun Grubu", "Urun_Grubu"}

ColIndex(c) == CHOOSE i \in DOMAIN ColumnOrder : ColumnOrder[i] = c

Letters == <<"A", "K", "L", "U", "V", "W">>

ColLetter(c) == Letters[ColIndex(c)]

ColDigit(c) == Digits[ColIndex(c) - 5]

\* Row kinds: "x" and "y" ordinary rows, "f" a row whose commission is a
\* fraction, "b" a row of blank cells, "n" a row of missing cells, "g" a row
\* whose product-group cell is blank.
RowKinds == {"x", "y", "f", "b", "n", "g"}

Cell(c, kind) ==
  IF kind = "n" THEN NaN
  ELSE IF kind = "b" THEN <<" ">>
  ELSE IF c \in CommissionColumns
       THEN (CASE kind = "y" -> <<"2", ColDigit(c)>>
               [] kind = "f" -> <<"0", ".", ColDigit(c)>>
               [] OTHER -> <<"%", "1", ColDigit(c), ",", "5">>)
       ELSE IF kind = "g" /\ c \in GroupOnlyColumns THEN <<" ">>
            ELSE IF kind = "y" THEN <<ColLetter(c), "y", " ">>
            ELSE <<" ", ColLetter(c), kind>>

SeqsUpTo(S, n) == UNION {[1..k -> S] : k \in 0..n}

\* The columns that can bear on a marketplace's load: the canonical four and
\* every name of its candidate lists.
RelevantColumns(mp) ==
  LET c == ColumnsCandidates(mp)
  IN Range(Wanted) \cup Range(c.category) \cup Range(c.sub_category)
       \cup Range(c.product_group) \cup Range(c.commission)

Table(cols, kinds) ==
  [cols |-> cols, rows |-> [i \in DOMAIN kinds |-> [c \in cols |-> Cell(c, kinds[i])]]]

RawTables(mp) ==
  {Table(cols, kinds) : cols \in SUBSET RelevantColumns(mp),
                        kinds \in SeqsUpTo(RowKinds, MaxRows)}

Pending == [err |-> "pending", rows |-> <<>>]

(***************************************************************************)
(* The hot-reload cache.                                                   *)
(*                                                                         *)
(* A marketplace is named by its position in the registry (the iteration   *)
(* order of _files).  A source file is missing, or has a modification time *)
(* and one of the raw tables of FileVersions as its content.  A snapshot   *)
(* is a list object: data[k] refers to it and heap gives its rows, so that *)
(* replacing a snapshot and editing one in place are different things.     *)
(***************************************************************************)
\* self._files: the registry, filled once by _init_file_registry.
Keys == DOMAIN files

\* The position after the last marketplace of the registry.
End == Cardinality(Keys) + 1

Key(k) == MarketOrder[k]

Workers == {"w1", "w2"}

Mtimes == 1..MaxMtime

\* _init_file_registry: self._mtimes[key] = -1.0
NoMtime == 0 - 1

FileVersions ==
  <<Table(Range(Wanted), <<"x", "y">>),
    Table({"Ana Kategori", "Kategori", "~Ur~un Grubu", "Komisyon_%_KDV_Dahil"}, <<"f">>),
    Table({"Komisyon_%_KDV_Dahil"}, <<"x">>)>>

Contents == DOMAIN FileVersions

Missing == [exists |-> FALSE, mtime |-> 0, content |-> 0]

FileStates ==
  {Missing} \cup [exists : {TRUE}, mtime : Mtimes, content : Contents]

\* What _load_csv_normalized makes of each file version for each marketplace.
Loads ==
  [k \in DOMAIN MarketOrder, c \in Contents |-> LoadCsvNormalized(FileVersions[c], Key(k))]

LoadVersion(k, c) == Loads[k, c]

\* The load of file k as it is now: read_csv raises when the file is gone,
\* normalization when the columns do not resolve.
LoadFile(k) ==
  IF ~files[k].exists THEN Raises("io") ELSE LoadVersion(k, files[k].content)

\* List objects: one per marketplace, one a reader may still hold, one being
\* stored.  An object nothing refers to holds <<>> and is used again.
Refs == 1..(NMarkets + 2)

NoRef == 0

InUse == {data[k] : k \in Keys} \cup {held.ref}

NewRef == CHOOSE r \in Refs : r \notin InUse /\ \A q \in Refs : q \notin InUse => r <= q

\* self._data.get(key, [])
Rows(k) == IF data[k] = NoRef THEN <<>> ELSE heap[data[k]]

\* The mutated form of AssignData: the list the key already refers to is
\* overwritten instead of a new list being bound.
AssignDataInPlace(k, rows) ==
  IF data[k] = NoRef
  THEN /\ data' = [data EXCEPT ![k] = NewRef]
       /\ heap' = [heap EXCEPT ![NewRef] = rows]
  ELSE /\ data' = data
       /\ heap' = [heap EXCEPT ![data[k]] = rows]

\* self._data[key] = rows: the key is bound to a new list object; the list it
\* referred to is left as it was, and is reclaimed when no reader holds it.
AssignData(k, rows) ==
  LET r == NewRef
      old == data[k]
  IN /\ data' = [data EXCEPT ![k] = r]
     /\ heap' = [x \in Refs |->
                   IF x = r THEN rows
                   ELSE IF x = old /\ old # held.ref THEN <<>>
                   ELSE heap[x]]

\* m != self._mtimes.get(key, -1), or force
NeedsReloadIfNewer(force, m, recorded) == force \/ m > recorded

NeedsReloadAlways(force, m, recorded) == TRUE

NeedsReload(force, m, recorded) == force \/ m # recorded

\* Where the loop goes after a missing file (continue) and after a failed load
\* (the except clause), with their mutated forms (the loop is left).
StopAfterMissing(i) == End

NextAfterMissing(i) == i + 1

AbortAfterFailure(i) == End

NextAfterFailure(i) == i + 1

\* What a worker remembers of marketplace k in the current call: what happened
\* (res), the modification time it read (m) and the file version it loaded (c).
NoOutcome == [res |-> "none", m |-> 0, c |-> 0]

IdleWorker ==
  [pc |-> "idle", i |-> 1, force |-> FALSE, m |-> 0, loaded |-> <<>>, c |-> 0,
   changed |-> FALSE, raised |-> FALSE, quietBefore |-> FALSE,
   preRows |-> [k \in Keys |-> <<>>], preM |-> [k \in Keys |-> 0],
   out |-> [k \in Keys |-> NoOutcome]]

\* A worker that does not exist (a single-threaded server has one worker).
OffWorker == [IdleWorker EXCEPT !.pc = "off"]

\* What a call found at its start and did per marketplace is recorded only when
\* the call cannot overlap another one: the statements that compare the state
\* after a call with the state before it are about calls that run alone.
Alone(w) == \A v \in Workers \ {w} : thr[v].pc = "off"

\* The loop moves to marketplace j, or ends when there is none.
Goto(w, j, outcome) ==
  [thr[w] EXCEPT !.pc = IF j >= End THEN "done" ELSE "exists",
                 !.i = IF j >= End THEN 1 ELSE j,
                 !.m = 0, !.loaded = <<>>, !.c = 0,
                 !.out = IF Alone(w) THEN [@ EXCEPT ![thr[w].i] = outcome] ELSE @]

(***************************************************************************)
(* The state after construction: the registry is initialised and the       *)
(* forced refresh of __init__ has run over the files as they are.          *)
(***************************************************************************)
\* No stateless call is being checked.
CallOff ==
  /\ cPc = "off"
  /\ cRows = <<>>
  /\ cArgs = <<>>
  /\ cOut = <<>>

NormOff ==
  /\ nPc = "off"
  /\ nMp = "trendyol"
  /\ nRaw = Table({}, <<>>)
  /\ nOut = Pending
  /\ nLoad = Pending

CacheInit(workers, n) ==
  /\ NormOff
  /\ CallOff
  /\ files \in [1..n -> FileStates]
  /\ mtimes = [k \in Keys |->
                 IF files[k].exists /\ LoadVersion(k, files[k].content).err = ""
                 THEN files[k].mtime ELSE NoMtime]
  /\ data = [k \in Keys |->
               IF files[k].exists /\ LoadVersion(k, files[k].content).err # ""
               THEN NoRef ELSE k]
  /\ heap = [x \in Refs |->
               IF x \in Keys /\ files[x].exists /\ LoadVersion(x, files[x].content).err = ""
               THEN LoadVersion(x, files[x].content).rows ELSE <<>>]
  /\ held = [ref |-> NoRef, rows |-> <<>>]
  /\ thr = [w \in Workers |-> IF w \in workers THEN IdleWorker ELSE OffWorker]
  /\ touched = FALSE
  /\ events = 0

(***************************************************************************)
(* The environment: a source file is written, replaced, touched, restored  *)
(* or removed.                                                             *)
(***************************************************************************)
WriteFile(k) ==
  /\ events < MaxFileEvents
  /\ \E f \in FileStates \ {Missing, files[k]} : files' = [files EXCEPT ![k] = f]
  /\ events' = events + 1
  /\ touched' = (\E w \in Workers : Alone(w))
  /\ UNCHANGED <<mtimes, data, heap, held, thr>>
  /\ UNCHANGED normVars
  /\ UNCHANGED callVars

RemoveFile(k) ==
  /\ events < MaxFileEvents
  /\ files[k].exists
  /\ files' = [files EXCEPT ![k] = Missing]
  /\ events' = events + 1
  /\ touched' = (\E w \in Workers : Alone(w))
  /\ UNCHANGED <<mtimes, data, heap, held, thr>>
  /\ UNCHANGED normVars
  /\ UNCHANGED callVars

(***************************************************************************)
(* refresh_if_changed(force), one step per shared read or write.           *)
(***************************************************************************)
\* A request enters refresh_if_changed: _auto_refresh (force = FALSE) or
\* manual_reload (force = TRUE).
Call(w, force) ==
  /\ thr[w].pc = "idle"
  /\ thr' = [thr EXCEPT ![w] =
               IF Alone(w)
               THEN [IdleWorker EXCEPT !.pc = "exists", !.force = force,
                                       !.quietBefore = ~touched,
                                       !.preRows = [k \in Keys |-> Rows(k)],
                                       !.preM = mtimes]
               ELSE [IdleWorker EXCEPT !.pc = "exists", !.force = force]]
  /\ touched' = FALSE
  /\ UNCHANGED <<files, mtimes, data, heap, held, events>>
  /\ UNCHANGED normVars
  /\ UNCHANGED callVars

\* if not path.exists(): self._data[key] = []; continue
Exists(w) ==
  LET k == thr[w].i
  IN /\ thr[w].pc = "exists"
     /\ IF files[k].exists
        THEN /\ thr' = [thr EXCEPT ![w].pc = "stat"]
             /\ UNCHANGED <<data, heap>>
        ELSE /\ AssignData(k, <<>>)
             /\ thr' = [thr EXCEPT ![w] =
                          Goto(w, NextAfterMissing(k), [NoOutcome EXCEPT !.res = "missing"])]
     /\ UNCHANGED <<files, mtimes, held, touched, events>>
     /\ UNCHANGED normVars
     /\ UNCHANGED callVars

\* m = path.stat().st_mtime: FileNotFoundError leaves the call when the file
\* has gone since the exists() test.
Stat(w) ==
  LET k == thr[w].i
  IN /\ thr[w].pc = "stat"
     /\ IF files[k].exists
        THEN thr' = [thr EXCEPT ![w].pc = "compare", ![w].m = files[k].mtime]
        ELSE thr' = [thr EXCEPT ![w] =
                       [Goto(w, End, [NoOutcome EXCEPT !.res = "raised"])
                          EXCEPT !.raised = TRUE]]
     /\ UNCHANGED <<files, mtimes, data, heap, held, touched, events>>
     /\ UNCHANGED normVars
     /\ UNCHANGED callVars

\* if force or m != self._mtimes.get(key, -1):
Compare(w) ==
  LET k == thr[w].i
  IN /\ thr[w].pc = "compare"
     /\ IF NeedsReload(thr[w].force, thr[w].m, mtimes[k])
        THEN thr' = [thr EXCEPT ![w].pc = "load"]
        ELSE thr' = [thr EXCEPT ![w] =
                       Goto(w, k + 1, [res |-> "fresh", m |-> thr[w].m, c |-> 0])]
     /\ UNCHANGED <<files, mtimes, data, heap, held, touched, events>>
     /\ UNCHANGED normVars
     /\ UNCHANGED callVars

\* The except clause: the failure is logged; the mutated form empties the
\* snapshot and forgets the recorded time.
OnLoadFailureClear(k) ==
  /\ AssignData(k, <<>>)
  /\ mtimes' = [mtimes EXCEPT ![k] = NoMtime]

OnLoadFailure(k) == UNCHANGED <<mtimes, data, heap>>

\* self._load_csv_normalized(path, key), inside the try
LoadStep(w) ==
  LET k == thr[w].i
      res == LoadFile(k)
  IN /\ thr[w].pc = "load"
     /\ IF res.err = ""
        THEN /\ thr' = [thr EXCEPT ![w].pc = "store", ![w].loaded = res.rows,
                                   ![w].c = files[k].content]
             /\ UNCHANGED <<mtimes, data, heap>>
        ELSE /\ OnLoadFailure(k)
             /\ thr' = [thr EXCEPT ![w] =
                          Goto(w, NextAfterFailure(k),
                               [res |-> "failed", m |-> thr[w].m, c |-> files[k].content])]
     /\ UNCHANGED <<files, held, touched, events>>
     /\ UNCHANGED normVars
     /\ UNCHANGED callVars

\* self._data[key] = <the loaded rows>
Store(w) ==
  /\ thr[w].pc = "store"
  /\ AssignData(thr[w].i, thr[w].loaded)
  /\ thr' = [thr EXCEPT ![w].pc = "mtime"]
  /\ UNCHANGED <<files, mtimes, held, touched, events>>
  /\ UNCHANGED normVars
  /\ UNCHANGED callVars

\* self._mtimes[key] = m; changed = True
SetMtime(w) ==
  LET k == thr[w].i
  IN /\ thr[w].pc = "mtime"
     /\ mtimes' = [mtimes EXCEPT ![k] = thr[w].m]
     /\ thr' = [thr EXCEPT ![w] =
                  [Goto(w, k + 1, [res |-> "loaded", m |-> thr[w].m, c |-> thr[w].c])
                     EXCEPT !.changed = TRUE]]
     /\ UNCHANGED <<files, data, heap, held, touched, events>>
     /\ UNCHANGED normVars
     /\ UNCHANGED callVars

\* return changed (or the exception leaves the call)
Return(w) ==
  /\ thr[w].pc = "done"
  /\ thr' = [thr EXCEPT ![w] = IdleWorker]
  /\ UNCHANGED <<files, mtimes, data, heap, held, touched, events>>
  /\ UNCHANGED normVars
  /\ UNCHANGED callVars

(***************************************************************************)
(* A reader: rows = self._data.get(marketplace_id, []) binds the list      *)
(* object the key refers to at that moment.                                *)
(***************************************************************************)
Acquire(k) ==
  /\ held.ref = NoRef
  /\ data[k] # NoRef
  /\ held' = [ref |-> data[k], rows |-> heap[data[k]]]
  /\ UNCHANGED <<files, mtimes, data, heap, thr, touched, events>>
  /\ UNCHANGED normVars
  /\ UNCHANGED callVars

Release ==
  /\ held.ref # NoRef
  /\ held' = [ref |-> NoRef, rows |-> <<>>]
  /\ heap' = [x \in Refs |->
                IF x = held.ref /\ \A k \in Keys : data[k] # x THEN <<>> ELSE heap[x]]
  /\ UNCHANGED <<files, mtimes, data, thr, touched, events>>
  /\ UNCHANGED normVars
  /\ UNCHANGED callVars

(***************************************************************************)
(* Specifications: one worker at a time (SpecSeq), and two workers and a   *)
(* reader interleaved (SpecConc).                                          *)
(***************************************************************************)
Step(w) ==
  \/ \E force \in BOOLEAN : Call(w, force)
  \/ Exists(w)
  \/ Stat(w)
  \/ Compare(w)
  \/ LoadStep(w)
  \/ Store(w)
  \/ SetMtime(w)
  \/ Return(w)

FileEvent == \E k \in Keys : WriteFile(k) \/ RemoveFile(k)

SeqNext == FileEvent \/ Step("w1")

ConcNext ==
  \/ FileEvent
  \/ \E w \in Workers : Step(w)
  \/ \E k \in Keys : Acquire(k)
  \/ Release

SpecSeq == CacheInit({"w1"}, NMarkets) /\ [][SeqNext]_vars

SpecConc == CacheInit(Workers, NConcMarkets) /\ [][ConcNext]_vars

CacheOff ==
  /\ files = <<>>
  /\ mtimes = <<>>
  /\ data = <<>>
  /\ heap = [x \in Refs |-> <<>>]
  /\ held = [ref |-> NoRef, rows |-> <<>>]
  /\ thr = [w \in Workers |-> IdleWorker]
  /\ touched = FALSE
  /\ events = 0

(***************************************************************************)
(* The normalizer applied to one raw table of one marketplace.             *)
(***************************************************************************)
NormInit ==
  /\ nPc = "in"
  /\ nMp \in Markets
  /\ nRaw \in RawTables(nMp)
  /\ nOut = Pending
  /\ nLoad = Pending
  /\ CacheOff
  /\ CallOff

Normalize ==
  /\ nPc = "in"
  /\ nOut' = NormalizeToFlat4(nRaw, ColumnsCandidates(nMp))
  /\ nPc' = "normalized"
  /\ UNCHANGED <<nMp, nRaw, nLoad>>
  /\ UNCHANGED cacheVars
  /\ UNCHANGED callVars

Load ==
  /\ nPc = "normalized"
  /\ nLoad' = LoadCsvNormalized(nRaw, nMp)
  /\ nPc' = "loaded"
  /\ UNCHANGED <<nMp, nRaw, nOut>>
  /\ UNCHANGED cacheVars
  /\ UNCHANGED callVars

NormNext == Normalize \/ Load

SpecNorm == NormInit /\ [][NormNext]_vars

(***************************************************************************)
(* Claims about the normalizer (checked under SpecNorm).                   *)
(***************************************************************************)
AnyPresent(candidates) == \E i \in DOMAIN candidates : candidates[i] \in nRaw.cols

\* The first name of the list, in list order, that is a column of the raw table.
IsFirstPresent(c, candidates) ==
  \E i \in DOMAIN candidates :
     /\ candidates[i] = c
     /\ c \in nRaw.cols
     /\ \A j \in 1..(i - 1) : candidates[j] \notin nRaw.cols

TheFirstPresent(candidates) ==
  CHOOSE c \in Range(candidates) : IsFirstPresent(c, candidates)

ResolutionMustFail ==
  \/ ~AnyPresent(ColumnsCandidates(nMp).product_group)
  \/ /\ ~AnyPresent(ColumnsCandidates(nMp).category)
     /\ ~AnyPresent(ColumnsCandidates(nMp).sub_category)

\* C9: normalization signals a resolution error, and produces no rows, exactly
\* when no product-group candidate is a column of the raw table or when neither
\* a category nor a sub-category candidate is; otherwise it succeeds.  The same
\* holds of a load (which normalizes unless the table is already canonical).
C9_ResolutionErrorExactly ==
  /\ nPc # "in" =>
       /\ (nOut.err # "") <=> ResolutionMustFail
       /\ nOut.err # "" => nOut.rows = <<>>
  /\ nPc = "loaded" =>
       /\ (nLoad.err # "") <=> ResolutionMustFail
       /\ nLoad.err # "" => nLoad.rows = <<>>

C9_Witness ==
  /\ nPc = "loaded"
  /\ nOut.err = "category"
  /\ nRaw.rows # <<>>
  /\ AnyPresent(ColumnsCandidates(nMp).product_group)

\* The text a normalized row carries for a cell, and the commission column as
\* the normalizer scales it.
TextOf(cell) == Strip(AsStr(cell))

CommissionOf(col) ==
  FixScale([i \in DOMAIN nRaw.rows |-> ExtractNumber(AsStr(nRaw.rows[i][col]))])

\* Field f of every normalized row is read from column c of the raw row it
\* comes from.
TextFrom(field, c) ==
  \A r \in Range(nOut.rows) :
     \E i \in DOMAIN nRaw.rows :
        /\ r[field] = TextOf(nRaw.rows[i][c])
        /\ r.UrunGrubu = TextOf(nRaw.rows[i][TheFirstPresent(ColumnsCandidates(nMp).product_group)])

CommissionFrom(c) ==
  \A r \in Range(nOut.rows) :
     \E i \in DOMAIN nRaw.rows : r.Komisyon = CommissionOf(c)[i]

FieldEmpty(field) == \A r \in Range(nOut.rows) : r[field] = <<>>

TextFieldAsClaimed(field, candidates) ==
  /\ \A c \in Range(candidates) : IsFirstPresent(c, candidates) => TextFrom(field, c)
  /\ ~AnyPresent(candidates) => FieldEmpty(field)
  /\ (nOut.rows # <<>> /\ FieldEmpty(field) /\ AnyPresent(candidates)) =>
        \E c \in Range(candidates) :
           /\ IsFirstPresent(c, candidates)
           /\ \A i \in DOMAIN nRaw.rows : TextOf(nRaw.rows[i][c]) = <<>>

CommissionAsClaimed ==
  LET candidates == ColumnsCandidates(nMp).commission
  IN /\ \A c \in Range(candidates) : IsFirstPresent(c, candidates) => CommissionFrom(c)
     /\ ~AnyPresent(candidates) => \A r \in Range(nOut.rows) : r.Komisyon = NaNf

\* C10 as stated: each of the four canonical fields is read from the first
\* present candidate of its own list, and is empty in every row only when none
\* of its candidates is present (or that column's cells are themselves blank).
C10_EveryFieldFromFirstCandidate ==
  (nPc # "in" /\ nOut.err = "") =>
     /\ TextFieldAsClaimed("Kategori", ColumnsCandidates(nMp).category)
     /\ TextFieldAsClaimed("AltKategori", ColumnsCandidates(nMp).sub_category)
     /\ TextFieldAsClaimed("UrunGrubu", ColumnsCandidates(nMp).product_group)
     /\ CommissionAsClaimed

\* C10 amended: product-group and commission are read from the first present
\* candidate of their lists (commission is missing in every row when none is
\* present).  Category and sub-category are read from the first present
\* candidate of their lists when both lists resolve and resolve to different
\* columns; otherwise category is read from the one column that resolved (the
\* category list's if it resolved, else the sub-category list's) and
\* sub-category is empty in every row.
C10_FieldsFromFirstCandidate ==
  (nPc # "in" /\ nOut.err = "") =>
     LET cands == ColumnsCandidates(nMp)
         both == \E c \in Range(cands.category), d \in Range(cands.sub_category) :
                    /\ IsFirstPresent(c, cands.category)
                    /\ IsFirstPresent(d, cands.sub_category)
                    /\ c # d
     IN /\ TextFieldAsClaimed("UrunGrubu", cands.product_group)
        /\ CommissionAsClaimed
        /\ both => /\ TextFieldAsClaimed("Kategori", cands.category)
                   /\ TextFieldAsClaimed("AltKategori", cands.sub_category)
        /\ ~both =>
             /\ FieldEmpty("AltKategori")
             /\ AnyPresent(cands.category) =>
                  \A c \in Range(cands.category) :
                     IsFirstPresent(c, cands.category) => TextFrom("Kategori", c)
             /\ ~AnyPresent(cands.category) =>
                  \A d \in Range(cands.sub_category) :
                     IsFirstPresent(d, cands.sub_category) => TextFrom("Kategori", d)

\* A table whose second and third product-group candidates are both present
\* without the first, and whose category and sub-category resolve to one column.
C10_Witness ==
  /\ nPc # "in"
  /\ nOut.err = ""
  /\ Len(nOut.rows) = 2
  /\ nMp = "trendyol"
  /\ nRaw.cols = {"Kategori", "Urun Grubu", "Urun_Grubu", "komisyon"}

\* A table with 'Ana Kategori' and 'Kategori' and without 'Alt Kategori'.
DualUse ==
  /\ "Ana Kategori" \in nRaw.cols
  /\ "Kategori" \in nRaw.cols
  /\ "Alt Kategori" \notin nRaw.cols

\* Every normalized row has its category from column c and its sub-category
\* from column d of one raw row (d = NoCol: the sub-category is empty).
PathFrom(c, d) ==
  \A r \in Range(nOut.rows) :
     \E i \in DOMAIN nRaw.rows :
        /\ r.Kategori = TextOf(nRaw.rows[i][c])
        /\ r.AltKategori = IF d = NoCol THEN <<>> ELSE TextOf(nRaw.rows[i][d])

MainCategoryFirst(mp) == ColumnsCandidates(mp).category[1] = "Ana Kategori"

\* C11 as stated: for every marketplace, a table with 'Ana Kategori' and
\* 'Kategori' and without 'Alt Kategori' is normalized with category from
\* 'Ana Kategori' and sub-category from 'Kategori', whatever the cells hold.
C11_KategoriBecomesSubCategoryEverywhere ==
  (nPc # "in" /\ nOut.err = "" /\ DualUse) => PathFrom("Ana Kategori", "Kategori")

\* C11 amended: that holds for the marketplaces whose category candidates name
\* 'Ana Kategori' before 'Kategori' (trendyol, hepsiburada); for the others
\* category is read from 'Kategori', sub-category is empty and 'Ana Kategori'
\* is not used.  Either way only the columns present decide, not the cells.
C11_KategoriBecomesSubCategoryByCandidateOrder ==
  (nPc # "in" /\ nOut.err = "" /\ DualUse) =>
     IF MainCategoryFirst(nMp)
     THEN nMp \in {"trendyol", "hepsiburada"} /\ PathFrom("Ana Kategori", "Kategori")
     ELSE PathFrom("Kategori", NoCol)

C11_Witness ==
  /\ nPc # "in"
  /\ nOut.err = ""
  /\ DualUse
  /\ nMp = "hepsiburada"
  /\ Len(nOut.rows) = 2
  /\ \E r \in Range(nOut.rows) : r.Kategori = <<"A", "x">> /\ r.AltKategori = <<"K", "x">>

\* The table takes the canonical path of a load: it has the four canonical columns.
Canonical == Range(Wanted) \subseteq nRaw.cols

Loaded == nPc = "loaded" /\ nLoad.err = ""

\* A canonical cell as the snapshot holds it: not stripped, "" when missing.
Txt(cell) == IF cell = NaN THEN <<>> ELSE cell

GroupColumn ==
  IF Canonical THEN Wanted[3] ELSE TheFirstPresent(ColumnsCandidates(nMp).product_group)

FromRawRow(r, i) ==
  r.UrunGrubu = (IF Canonical THEN Txt(nRaw.rows[i][GroupColumn])
                 ELSE TextOf(nRaw.rows[i][GroupColumn]))

\* C13: after a successful load through either path, no two rows of the
\* snapshot are identical on all four fields, and the rows are in the order of
\* their first occurrence in the source table.
C13_NoDuplicateRowsInFirstSeenOrder ==
  Loaded =>
     /\ \A i, j \in DOMAIN nLoad.rows : i # j => nLoad.rows[i] # nLoad.rows[j]
     /\ \A i, j \in DOMAIN nLoad.rows :
           i < j => \E a, b \in DOMAIN nRaw.rows :
                       a < b /\ FromRawRow(nLoad.rows[i], a) /\ FromRawRow(nLoad.rows[j], b)

(***************************************************************************)
(* Claims about the hot-reload cache.  Those that compare the state after  *)
(* a refresh call with the state before it are checked under SpecSeq,      *)
(* where the call is the only one in progress; me is that call, and the    *)
(* predicates below are read in the state where it returns.                *)
(***************************************************************************)
me == thr["w1"]

Returning == me.pc = "done"

\* The call performed a load of marketplace k's file.
LoadAttempted(k) == me.out[k].res \in {"loaded", "failed"}

\* The load of marketplace k failed in normalization (the file was read).
ResolutionFailed(k) == me.out[k].res = "failed" /\ me.out[k].c # 0

AsBefore(k) == Rows(k) = me.preRows[k] /\ mtimes[k] = me.preM[k]

\* The marketplaces after k were all visited, unless the stat() of one of them
\* raised (its file went away under the call) and ended the call there.
LaterOnesVisited(k) ==
  \A j \in Keys :
     (j > k /\ me.out[j].res = "none") =>
        \E i \in Keys : k < i /\ i < j /\ me.out[i].res = "raised"

\* C1: if loading or normalizing a marketplace's file fails during a refresh
\* call (forced or not), that marketplace's snapshot and recorded modification
\* time are after the call exactly what they were before it.
C1_FailedLoadKeepsSnapshotAndTime ==
  Returning => \A k \in Keys : me.out[k].res = "failed" => AsBefore(k)

C1_Witness ==
  /\ Returning
  /\ \E k \in Keys :
        /\ me.out[k].res = "failed"
        /\ me.preRows[k] # <<>>
        /\ me.preM[k] \in Mtimes
        /\ me.preM[k] # me.out[k].m

\* C2: when refresh finds a marketplace's file with a modification time other
\* than the recorded one (or force is set) and the load succeeds, then on
\* return the snapshot is the normalization of the file as loaded and the
\* recorded time is the one read in that call; so after a refresh during which
\* the files stood still, every loadable file that differed is reflected.
C2_ReloadStoresFileAndTime ==
  Returning =>
    \A k \in Keys :
       /\ me.out[k].res = "loaded" =>
            /\ Rows(k) = LoadVersion(k, me.out[k].c).rows
            /\ mtimes[k] = me.out[k].m
       /\ (/\ ~touched
           /\ files[k].exists
           /\ LoadFile(k).err = ""
           /\ (me.force \/ files[k].mtime # me.preM[k])) =>
            /\ me.out[k].res = "loaded"
            /\ Rows(k) = LoadFile(k).rows
            /\ mtimes[k] = files[k].mtime

C2_Witness ==
  /\ Returning
  /\ ~me.force
  /\ ~touched
  /\ \E k \in Keys :
        /\ me.out[k].res = "loaded"
        /\ me.preRows[k] # <<>>
        /\ Rows(k) # me.preRows[k]
        /\ me.preM[k] > files[k].mtime

\* No file event since the previous refresh call began, this call included.
FilesStoodStill == me.quietBefore /\ ~touched

\* C3 as stated: a refresh(force=false) made when no file has changed since the
\* previous refresh call loads no file, leaves every snapshot and recorded time
\* unchanged, and returns false.
C3_RepeatedRefreshLoadsNothing ==
  (Returning /\ ~me.force /\ FilesStoodStill) =>
     /\ \A k \in Keys : ~LoadAttempted(k) /\ AsBefore(k)
     /\ ~me.changed

\* C3 amended: such a call leaves every snapshot and every recorded time
\* unchanged and returns false; it loads no file whose recorded time equals the
\* file's modification time, but a file whose load failed has no time recorded
\* and is loaded again (and fails again) by every call.
C3_RepeatedRefreshChangesNothing ==
  (Returning /\ ~me.force /\ FilesStoodStill) =>
     /\ \A k \in Keys :
           /\ AsBefore(k)
           /\ me.out[k].res # "loaded"
           /\ LoadAttempted(k) => (files[k].exists /\ files[k].mtime # me.preM[k])
           /\ (files[k].exists /\ files[k].mtime = me.preM[k]) => me.out[k].res = "fresh"
     /\ ~me.changed
     /\ ~me.raised

C3_Witness ==
  /\ Returning /\ ~me.force /\ FilesStoodStill
  /\ \E k, j \in Keys :
        /\ me.out[k].res = "failed"
        /\ me.out[j].res = "fresh"
        /\ Rows(j) # <<>>

\* C4: when a marketplace's file does not exist when refresh looks for it, the
\* marketplace's snapshot is empty after the call, the missing file raises no
\* error, and the marketplaces after it are still processed in the same call.
C4_MissingFileGivesEmptySnapshot ==
  Returning =>
    \A k \in Keys :
       me.out[k].res = "missing" =>
          /\ Rows(k) = <<>>
          /\ LaterOnesVisited(k)
          /\ me.raised => \E i \in Keys : i > k /\ me.out[i].res = "raised"
          /\ ~touched => ~me.raised

C4_Witness ==
  /\ Returning
  /\ \E k, j \in Keys :
        /\ k < j
        /\ me.out[k].res = "missing"
        /\ me.preRows[k] # <<>>
        /\ me.out[j].res = "loaded"

\* C7: a load failure for one marketplace changes no other marketplace's
\* snapshot or recorded time (each other marketplace ends the call as its own
\* file decides), and the marketplaces after it are still reloaded in the same
\* call.
C7_LoadFailureIsIsolated ==
  Returning =>
    \A k \in Keys :
       me.out[k].res = "failed" =>
          /\ LaterOnesVisited(k)
          /\ \A j \in Keys \ {k} :
                /\ me.out[j].res \in {"none", "fresh", "failed", "raised"} => AsBefore(j)
                /\ me.out[j].res = "missing" => (Rows(j) = <<>> /\ mtimes[j] = me.preM[j])
                /\ me.out[j].res = "loaded" =>
                     /\ Rows(j) = LoadVersion(j, me.out[j].c).rows
                     /\ mtimes[j] = me.out[j].m

C7_Witness ==
  /\ Returning
  /\ \E k, j \in Keys :
        /\ k < j
        /\ ResolutionFailed(k)
        /\ me.out[j].res = "loaded"
        /\ Rows(j) # me.preRows[j]

\* C8 as stated: after a refresh in which a marketplace's table fails column
\* resolution, that marketplace's dataset is empty (every query returns no rows).
C8_ResolutionFailureEmptiesDataset ==
  Returning => \A k \in Keys : ResolutionFailed(k) => Rows(k) = <<>>

\* C8 amended: after such a refresh the marketplace's dataset is the one it
\* held before the refresh; it is empty only if it was empty already (no load
\* of it had succeeded, or its file had been found missing).
C8_ResolutionFailureKeepsDataset ==
  Returning =>
    \A k \in Keys :
       ResolutionFailed(k) =>
          /\ Rows(k) = me.preRows[k]
          /\ Rows(k) = <<>> <=> me.preRows[k] = <<>>

C8_Witness ==
  /\ Returning
  /\ \E k \in Keys : ResolutionFailed(k) /\ Rows(k) # <<>>

(***************************************************************************)
(* Claims about overlapping calls and readers (checked under SpecConc).    *)
(***************************************************************************)
\* The row sequences a load of marketplace k can produce, and the empty one.
CompleteSnapshots(k) ==
  {<<>>} \cup {LoadVersion(k, c).rows : c \in {d \in Contents : LoadVersion(k, d).err = ""}}

Reloading(w, k) == thr[w].pc \in {"load", "store", "mtime"} /\ thr[w].i = k

\* C5: a reader that obtains a marketplace's snapshot at any moment, also while
\* a refresh runs on another thread, sees a complete row sequence (the previous
\* one or a newly loaded one, never a partly built or mixed one), and the
\* snapshot it obtained is never modified by a later reload.
C5_ReadersSeeWholeSnapshots ==
  /\ \A k \in Keys : Rows(k) \in CompleteSnapshots(k)
  /\ held.ref # NoRef =>
       /\ heap[held.ref] = held.rows
       /\ \E k \in Keys : held.rows \in CompleteSnapshots(k)

C5_Witness ==
  /\ held.ref # NoRef
  /\ held.rows # <<>>
  /\ \E k \in Keys :
        /\ data[k] # held.ref
        /\ Rows(k) # <<>>
        /\ Rows(k) # held.rows
        /\ \E w \in Workers : thr[w].pc = "mtime" /\ thr[w].i = k

\* C6: at most one reload of a given marketplace is in progress at any time
\* (overlapping triggers collapse into a single load of its file).
C6_OneReloadInFlight ==
  \A k \in Keys : \A v, w \in Workers : (Reloading(v, k) /\ Reloading(w, k)) => v = w

(***************************************************************************)
(* Stateless calls.  The other variables are held still.                   *)
(***************************************************************************)
Still ==
  /\ NormOff
  /\ CacheOff

(***************************************************************************)
(* Scale normalization applied to a commission column, and applied again   *)
(* to its own result.  A column holds what _extract_number yields:         *)
(* non-negative numbers (here 0, 0.005, 0.01, 0.5, 1, 12.5 and 50) and     *)
(* missing values.                                                         *)
(***************************************************************************)
ScaleValues == {NaNf, 0, 50, 100, 5000, Scale, 125000, 50 * Scale}

ScaleInit ==
  /\ Still
  /\ cPc = "column"
  /\ cRows = <<>>
  /\ cArgs \in SeqsUpTo(ScaleValues, MaxColumn)
  /\ cOut = <<>>

ScaleOnce ==
  /\ cPc = "column"
  /\ cOut' = <<FixScale(cArgs)>>
  /\ cPc' = "once"
  /\ UNCHANGED <<cRows, cArgs>>
  /\ UNCHANGED normVars
  /\ UNCHANGED cacheVars

ScaleAgain ==
  /\ cPc = "once"
  /\ cOut' = Append(cOut, FixScale(cOut[1]))
  /\ cPc' = "twice"
  /\ UNCHANGED <<cRows, cArgs>>
  /\ UNCHANGED normVars
  /\ UNCHANGED cacheVars

ScaleNext == ScaleOnce \/ ScaleAgain

SpecScale == ScaleInit /\ [][ScaleNext]_vars

\* One hundred times the 95th percentile of the non-missing values of a
\* column that has some (linear interpolation between order statistics).
Percentile95Times100(vals) ==
  LET s == Sorted(NotNa(vals))
      n == Len(s)
      h == (n - 1) * 95
      lo == (h \div 100) + 1
      hi == IF lo + 1 <= n THEN lo + 1 ELSE lo
  IN s[lo] * 100 + (h % 100) * (s[hi] - s[lo])

TimesHundred(vals) == [i \in DOMAIN vals |-> IF vals[i] = NaNf THEN NaNf ELSE vals[i] * 100]

\* C14 as stated: scale normalization applied to its own result changes no value.
C14_ScaleNormalizationIdempotent ==
  cPc = "twice" => cOut[2] = cOut[1]

\* C14 amended: scale normalization applied to its own result changes no
\* value unless the 95th percentile of the non-missing values of the original
\* column is at most 0.01 (the result's percentile is then still at most 1.0),
\* in which case the second application multiplies every value by 100 again.
C14_ScaleNormalizationIdempotentAboveHundredth ==
  cPc = "twice" =>
     IF NotNa(cArgs) # <<>> /\ Percentile95Times100(cArgs) <= Scale
     THEN cOut[1] = TimesHundred(cArgs) /\ cOut[2] = TimesHundred(cOut[1])
     ELSE cOut[2] = cOut[1]

\* A column of fractions with a missing value that the first application
\* scales and the second leaves alone.
C14_Witness ==
  /\ cPc = "twice"
  /\ Len(cArgs) = 3
  /\ NaNf \in Range(cArgs)
  /\ 5000 \in Range(cArgs)
  /\ cOut[1] # cArgs
  /\ cOut[2] = cOut[1]

(***************************************************************************)
(* The query engine: search_products, find_commission (with its route) and *)
(* list_pg_commissions over one snapshot.                                  *)
(*                                                                         *)
(* Python compares strings by code point; "->" stands for the arrow        *)
(* U+2192 and "~U", "~u" for the letter U with diaeresis.                  *)
(***************************************************************************)
Arrow == "->"

CodePoint(ch) ==
  CASE ch = " " -> 32
    [] ch = "A" -> 65
    [] ch = "B" -> 66
    [] ch = "U" -> 85
    [] ch = "a" -> 97
    [] ch = "b" -> 98
    [] ch = "u" -> 117
    [] ch = "~U" -> 220
    [] ch = "~u" -> 252
    [] ch = Arrow -> 8594

\* str.lower()
LowerChar(ch) ==
  CASE ch = "A" -> "a"
    [] ch = "B" -> "b"
    [] ch = "U" -> "u"
    [] ch = "~U" -> "~u"
    [] OTHER -> ch

Lower(s) == [i \in DOMAIN s |-> LowerChar(s[i])]

\* _normalize_turkish: each Turkish letter is replaced by its ASCII base.
NormalizeTurkish(s) ==
  [i \in DOMAIN s |-> CASE s[i] = "~u" -> "u" [] s[i] = "~U" -> "U" [] OTHER -> s[i]]

\* self._normalize_turkish(str(x).lower())
Fold(s) == NormalizeTurkish(Lower(s))

\* q in s
Contains(q, s) ==
  \E i \in 0..(Len(s) - Len(q)) : SubSeq(s, i + 1, i + Len(q)) = q

\* a < b on strings
RECURSIVE LexLess(_, _)
LexLess(a, b) ==
  IF b = <<>> THEN FALSE
  ELSE IF a = <<>> THEN TRUE
  ELSE IF Head(a) # Head(b) THEN CodePoint(Head(a)) < CodePoint(Head(b))
  ELSE LexLess(Tail(a), Tail(b))

\* The mutated form of Priority: a sub-category match ranks first.
PrioritySubFirst(in_cat, in_sub) == IF in_sub THEN 0 ELSE IF in_cat THEN 1 ELSE 2

\* priority = 0 if in_cat else (1 if in_sub else 2)
Priority(in_cat, in_sub) == IF in_cat THEN 0 ELSE IF in_sub THEN 1 ELSE 2

\* f"{Kategori} -> {Alt Kategori} -> {Urun Grubu}".lower()
PathForSort(r) ==
  Lower(r.Kategori \o <<" ", Arrow, " ">> \o r.AltKategori \o <<" ", Arrow, " ">> \o r.UrunGrubu)

\* (x[0], x[1]) < (y[0], y[1])
KeyLess(x, y) ==
  \/ x.priority < y.priority
  \/ x.priority = y.priority /\ LexLess(x.path, y.path)

\* list.sort(key=...): a stable sort.
RECURSIVE InsertStable(_, _)
InsertStable(x, s) ==
  IF s = <<>> THEN <<x>>
  ELSE IF KeyLess(x, s[Len(s)])
       THEN Append(InsertStable(x, SubSeq(s, 1, Len(s) - 1)), s[Len(s)])
       ELSE Append(s, x)

RECURSIVE SortStable(_)
SortStable(s) ==
  IF s = <<>> THEN <<>>
  ELSE InsertStable(s[Len(s)], SortStable(SubSeq(s, 1, Len(s) - 1)))

SearchProducts(rows, query) ==
  LET q == Strip(Fold(query))
      in_cat(r) == Contains(q, Fold(r.Kategori))
      in_sub(r) == Contains(q, Fold(r.AltKategori))
      in_grp(r) == Contains(q, Fold(r.UrunGrubu))
      found == SelectSeq(rows, LAMBDA r : in_cat(r) \/ in_sub(r) \/ in_grp(r))
      ranked == [i \in DOMAIN found |->
                   [priority |-> Priority(in_cat(found[i]), in_sub(found[i])),
                    path |-> PathForSort(found[i]),
                    r |-> found[i]]]
      sorted == SortStable(ranked)
  IN IF q = <<>> THEN rows ELSE [i \in DOMAIN sorted |-> sorted[i].r]

\* None
NoneVal == 0 - 3

\* The mutated form of FindCommission: the sub-category is not compared.
FindCommissionIgnoringSub(rows, category, sub, group) ==
  LET hits == {i \in DOMAIN rows :
                 rows[i].Kategori = category /\ rows[i].UrunGrubu = group}
  IN IF hits = {} THEN NoneVal
     ELSE LET val == rows[CHOOSE i \in hits : \A j \in hits : i <= j].Komisyon
          IN IF val = EmptyStr THEN NoneVal ELSE val

\* The first row with that path decides: float(val), None when float("") raises,
\* and None when no row has the path.
FindCommission(rows, category, sub, group) ==
  LET hits == {i \in DOMAIN rows :
                 /\ rows[i].Kategori = category
                 /\ rows[i].AltKategori = sub
                 /\ rows[i].UrunGrubu = group}
  IN IF hits = {} THEN NoneVal
     ELSE LET val == rows[CHOOSE i \in hits : \A j \in hits : i <= j].Komisyon
          IN IF val = EmptyStr THEN NoneVal ELSE val

\* GET /api/<site>/commission
CommissionSite(rows, category, sub, group) ==
  LET value == FindCommission(rows, category, sub, group)
      found == value # NoneVal /\ value # NaNf
  IN [commission |-> IF found THEN value ELSE 0, found |-> found]

\* (val or 0.0)
OrZero(v) == IF v = NoneVal THEN 0 ELSE v

\* a > b on floats: false when either is NaN.
Greater(a, b) == a # NaNf /\ b # NaNf /\ a > b

\* The dictionary `seen` after the first n rows, in insertion order.
RECURSIVE Seen(_, _, _)
Seen(rows, norm_q, n) ==
  IF n = 0 THEN <<>>
  ELSE LET before == Seen(rows, norm_q, n - 1)
           r == rows[n]
           pg == Strip(r.UrunGrubu)
           val == IF r.Komisyon = EmptyStr THEN NoneVal ELSE r.Komisyon
           at == {k \in DOMAIN before : before[k].productGroup = pg}
           entry == [productGroup |-> pg, commissionPercent |-> val]
       IN IF pg = <<>> THEN before
          ELSE IF norm_q # <<>> /\ ~Contains(norm_q, Fold(pg)) THEN before
          ELSE IF at = {} THEN Append(before, entry)
          ELSE LET k == CHOOSE j \in at : TRUE
               IN IF Greater(OrZero(val), OrZero(before[k].commissionPercent))
                  THEN [before EXCEPT ![k] = entry]
                  ELSE before

ListPgCommissions(rows, q) ==
  LET norm_q == IF q # <<>> THEN Fold(q) ELSE <<>>
      seen == Seen(rows, norm_q, Len(rows))
      keyed == [i \in DOMAIN seen |->
                  [priority |-> 0, path |-> Lower(seen[i].productGroup), r |-> seen[i]]]
      sorted == SortStable(keyed)
  IN [i \in DOMAIN sorted |-> sorted[i].r]

(***************************************************************************)
(* Snapshots and arguments of the query calls.  A snapshot is one a load   *)
(* can produce: through the canonical path (any rows, a missing commission *)
(* is NaN) or through candidate resolution (trimmed text, some path field  *)
(* non-empty, no duplicates, a missing commission is "").                  *)
(***************************************************************************)
Ten == 10 * Scale

Fifteen == 15 * Scale

RowsOf(cats, subs, grps, coms) ==
  [Kategori : cats, AltKategori : subs, UrunGrubu : grps, Komisyon : coms]

SearchRows ==
  RowsOf({<<>>, <<"a", "b">>, <<"B", "a">>}, {<<>>, <<"b">>},
         {<<>>, <<"a">>, <<"~U", "b">>}, {Ten})

FindRows ==
  RowsOf({<<"a", "b">>, <<"B", "a">>}, {<<>>, <<"b">>}, {<<>>, <<"a">>},
         {EmptyStr, NaNf, Ten, Fifteen})

GroupRows ==
  RowsOf({<<"a", "b">>}, {<<>>, <<"b">>}, {<<>>, <<"a">>, <<" ", "a">>, <<"B">>},
         {EmptyStr, NaNf, Ten, Fifteen})

Loadable(rows) ==
  \/ \A i \in DOMAIN rows : rows[i].Komisyon # EmptyStr
  \/ /\ \A i \in DOMAIN rows :
           /\ rows[i].Komisyon # NaNf
           /\ Strip(rows[i].UrunGrubu) = rows[i].UrunGrubu
           /\ rows[i].Kategori # <<>> \/ rows[i].AltKategori # <<>> \/ rows[i].UrunGrubu # <<>>
     /\ \A i, j \in DOMAIN rows : i # j => rows[i] # rows[j]

Snapshots(universe) == {rows \in SeqsUpTo(universe, MaxSnapshot) : Loadable(rows)}

QueryArgs(op, qs, cats, subs, grps) ==
  [op : {op}, q : qs, category : cats, sub : subs, group : grps]

QueryInit ==
  /\ Still
  /\ cPc = "query"
  /\ cOut = <<>>
  /\ \/ /\ cRows \in Snapshots(SearchRows)
        /\ cArgs \in QueryArgs("search",
                                {<<>>, <<" ">>, <<"a">>, <<"B">>, <<"u", "b">>, <<" ", "~u">>},
                                {<<>>}, {<<>>}, {<<>>})
     \/ /\ cRows \in Snapshots(FindRows)
        /\ cArgs \in QueryArgs("find", {<<>>}, {<<"a", "b">>, <<"B", "a">>}, {<<>>, <<"b">>},
                                {<<"a">>, <<"A">>})
     \/ /\ cRows \in Snapshots(GroupRows)
        /\ cArgs \in QueryArgs("groups", {<<>>, <<"a">>, <<"b">>}, {<<>>}, {<<>>}, {<<>>})

Search ==
  /\ cPc = "query"
  /\ cArgs.op = "search"
  /\ cOut' = SearchProducts(cRows, cArgs.q)
  /\ cPc' = "search"
  /\ UNCHANGED <<cRows, cArgs>>
  /\ UNCHANGED normVars
  /\ UNCHANGED cacheVars

Find ==
  /\ cPc = "query"
  /\ cArgs.op = "find"
  /\ cOut' = [value |-> FindCommission(cRows, cArgs.category, cArgs.sub, cArgs.group),
              site |-> CommissionSite(cRows, cArgs.category, cArgs.sub, cArgs.group)]
  /\ cPc' = "find"
  /\ UNCHANGED <<cRows, cArgs>>
  /\ UNCHANGED normVars
  /\ UNCHANGED cacheVars

Aggregate ==
  /\ cPc = "query"
  /\ cArgs.op = "groups"
  /\ cOut' = ListPgCommissions(cRows, cArgs.q)
  /\ cPc' = "groups"
  /\ UNCHANGED <<cRows, cArgs>>
  /\ UNCHANGED normVars
  /\ UNCHANGED cacheVars

QueryNext == Search \/ Find \/ Aggregate

SpecQuery == QueryInit /\ [][QueryNext]_vars

(***************************************************************************)
(* Claims about the query engine (checked under SpecQuery).                *)
(***************************************************************************)
IsRate(v) == v \notin {EmptyStr, NaNf, NoneVal}

\* The row has exactly the path asked for.
HasPath(r) ==
  /\ r.Kategori = cArgs.category
  /\ r.AltKategori = cArgs.sub
  /\ r.UrunGrubu = cArgs.group

\* C15: findCommission returns a rate only if some row of the snapshot has
\* exactly the category, sub-category and product group asked for, and the
\* rate returned is the one stored in a row with that path; when no row has
\* the path it returns not-found; the snapshot is never changed.
C15_FindCommissionExactMatch ==
  /\ [](cPc = "find" =>
          /\ cOut.value # NoneVal =>
                \E r \in Range(cRows) : HasPath(r) /\ r.Komisyon = cOut.value
          /\ cOut.site.found =>
                /\ IsRate(cOut.site.commission)
                /\ \E r \in Range(cRows) : HasPath(r) /\ r.Komisyon = cOut.site.commission
          /\ (\A r \in Range(cRows) : ~HasPath(r)) =>
                cOut.value = NoneVal /\ ~cOut.site.found)
  /\ [][cPc' = "find" => cRows' = cRows]_vars

\* Two rows with the path asked for and different rates, and a row with the
\* same category and product group under another sub-category before them.
C15_Witness ==
  /\ cPc = "find"
  /\ cOut.site.found
  /\ Len(cRows) = 2
  /\ ~HasPath(cRows[1])
  /\ cRows[1].Kategori = cArgs.category /\ cRows[1].UrunGrubu = cArgs.group
  /\ IsRate(cRows[1].Komisyon)
  /\ HasPath(cRows[2])
  /\ cRows[2].Komisyon # cRows[1].Komisyon

\* The query as the search compares it, and where a row contains it.
Needle == Strip(Fold(cArgs.q))

Hit(r, field) == Contains(Needle, Fold(r[field]))

Matching(r) == Hit(r, "Kategori") \/ Hit(r, "AltKategori") \/ Hit(r, "UrunGrubu")

Rank(r) ==
  IF Hit(r, "Kategori") THEN 1 ELSE IF Hit(r, "AltKategori") THEN 2 ELSE 3

\* The displayed path: the non-empty trimmed fields joined by the arrow.
Displayed(r) ==
  LET cat == Strip(r.Kategori)
      sub == Strip(r.AltKategori)
      grp == Strip(r.UrunGrubu)
      sep == <<" ", Arrow, " ">>
      join(a, b) == IF a = <<>> THEN b ELSE IF b = <<>> THEN a ELSE a \o sep \o b
  IN join(join(cat, sub), grp)

\* The lowercased text of the three stored fields, empty ones included.
StoredPathLowered(r) ==
  LET sep == <<" ", Arrow, " ">>
  IN Lower(r.Kategori \o sep \o r.AltKategori \o sep \o r.UrunGrubu)

\* f tells, for each row of the result, the snapshot row it is: the result is
\* exactly the matching rows.
Picks(f) ==
  /\ \A k \in DOMAIN cOut : cOut[k] = cRows[f[k]] /\ Matching(cRows[f[k]])
  /\ \A k, l \in DOMAIN cOut : k # l => f[k] # f[l]
  /\ \A i \in DOMAIN cRows : Matching(cRows[i]) => \E k \in DOMAIN cOut : f[k] = i

\* C16 as stated: for a non-empty query (one that is not blank, read in the
\* claim's favour) the result is exactly the matching
\* rows, category matches before sub-category matches before product-group
\* matches, rows of equal rank in the lexicographic order of their displayed path.
C16_SearchRankedByDisplayedPath ==
  (cPc = "search" /\ Needle # <<>>) =>
     /\ \E f \in [DOMAIN cOut -> DOMAIN cRows] : Picks(f)
     /\ \A k, l \in DOMAIN cOut :
           k < l => /\ Rank(cOut[k]) <= Rank(cOut[l])
                    /\ Rank(cOut[k]) = Rank(cOut[l]) =>
                          ~LexLess(Displayed(cOut[l]), Displayed(cOut[k]))

\* C16 amended: for a query that is non-empty after folding and trimming the
\* result is exactly the rows of which a folded field contains it, ordered by
\* rank and, within a rank, by the lowercased text of the three stored fields
\* joined by the arrow (empty fields included), rows of equal text in snapshot
\* order; a query that is empty after trimming returns the snapshot as it is.
C16_SearchRankedByLoweredStoredPath ==
  cPc = "search" =>
     IF Needle = <<>> THEN cOut = cRows
     ELSE \E f \in [DOMAIN cOut -> DOMAIN cRows] :
             /\ Picks(f)
             /\ \A k, l \in DOMAIN cOut :
                   k < l =>
                     \/ Rank(cOut[k]) < Rank(cOut[l])
                     \/ /\ Rank(cOut[k]) = Rank(cOut[l])
                        /\ \/ LexLess(StoredPathLowered(cOut[k]), StoredPathLowered(cOut[l]))
                           \/ /\ StoredPathLowered(cOut[k]) = StoredPathLowered(cOut[l])
                              /\ f[k] < f[l]

\* Two rows that match in the category, returned in the reverse of their
\* snapshot order.
C16_Witness ==
  /\ cPc = "search"
  /\ Needle # <<>>
  /\ Len(cRows) = 2
  /\ cRows[1] # cRows[2]
  /\ cOut = <<cRows[2], cRows[1]>>
  /\ Rank(cRows[1]) = 1
  /\ Rank(cRows[2]) = 1

\* The rows that pass the filter of the aggregation, and their groups.
Passing(r) ==
  /\ Strip(r.UrunGrubu) # <<>>
  /\ cArgs.q # <<>> => Contains(Fold(cArgs.q), Fold(Strip(r.UrunGrubu)))

GroupsPassing == {Strip(r.UrunGrubu) : r \in {x \in Range(cRows) : Passing(x)}}

RatesOf(pg) ==
  {r.Komisyon : r \in {x \in Range(cRows) : Passing(x) /\ Strip(x.UrunGrubu) = pg /\ IsRate(x.Komisyon)}}

\* C17: the aggregation has exactly one entry per product group among the
\* rows that pass the filter; its commission is the maximum among the group's
\* rows that have one (missing only when none has), a row without commission
\* never blocking one with a value; entries are sorted case-insensitively by
\* product group.
C17_AggregateKeepsMaximum ==
  cPc = "groups" =>
     /\ {e.productGroup : e \in Range(cOut)} = GroupsPassing
     /\ Len(cOut) = Cardinality(GroupsPassing)
     /\ \A e \in Range(cOut) :
           IF RatesOf(e.productGroup) = {} THEN ~IsRate(e.commissionPercent)
           ELSE /\ e.commissionPercent \in RatesOf(e.productGroup)
                /\ \A v \in RatesOf(e.productGroup) : v <= e.commissionPercent
     /\ \A k, l \in DOMAIN cOut :
           k < l => ~LexLess(Lower(cOut[l].productGroup), Lower(cOut[k].productGroup))

(***************************************************************************)
(* The VAT calculator (src/calculators/kdv.py), its route                  *)
(* (src/calculators/api.py) and the withholding branch of                  *)
(* calculate_kdv_api (src/app.py).                                         *)
(*                                                                         *)
(* An amount given to the calculator is a number of thousandths; a rounded *)
(* amount is a number of hundredths.  A rate is given in thousandths (20   *)
(* is 20000, 0.5 is 500).  A ratio is a pair num/den, den > 0.  Within the *)
(* amounts and rates used here the 28-digit quotients of Decimal round to  *)
(* two places as the exact quotients do.                                   *)
(***************************************************************************)
IsHalfEven(mode) == mode \in {"even", "half_even"}

\* _q2: num/den rounded to hundredths, half-even or half-up (num >= 0, den > 0).
Q2(num, den, mode) ==
  LET n == 100 * num
      q == n \div den
      twice == 2 * (n % den)
  IN IF twice > den THEN q + 1
     ELSE IF twice < den THEN q
     ELSE IF IsHalfEven(mode) /\ q % 2 = 0 THEN q
     ELSE q + 1

\* _norm_rate: r/100 if r >= 1 else r
NormRate(rate) ==
  IF rate >= 1000 THEN [num |-> rate, den |-> 100 * 1000] ELSE [num |-> rate, den |-> 1000]

\* An absent withholding (None).
NoWithholding == <<"None">>

Zero == [num |-> 0, den |-> 1]

One == [num |-> 1, den |-> 1]

Ratio(r) == [err |-> "", num |-> r.num, den |-> r.den]

Fails(what) == [err |-> what, num |-> 0, den |-> 1]

\* str(w).strip().replace(" ", "")
RemoveSpaces(s) == SelectSeq(s, LAMBDA ch : ~IsSpace(ch))

\* Decimal(s) and float(s) of a signed decimal literal: its sign and its
\* magnitude in units of 1/Scale; ok is false when s is no number.
Number(s) ==
  LET neg == s # <<>> /\ Head(s) = "-"
      body == IF neg THEN Tail(s) ELSE s
      mag == IF body = <<>> \/ IsSpace(Head(body)) THEN NaNf ELSE ToNumeric(body)
  IN [ok |-> mag # NaNf, neg |-> neg /\ mag > 0, mag |-> IF mag = NaNf THEN 0 ELSE mag]

FirstSlash(s) == CHOOSE i \in DOMAIN s : s[i] = "/" /\ \A j \in 1..(i - 1) : s[j] # "/"

\* _parse_withholding
ParseWithholding(w) ==
  IF w = NoWithholding THEN Ratio(Zero)
  ELSE LET s == RemoveSpaces(w)
       IN IF "/" \in Range(s)
          THEN LET a == Number(SubSeq(s, 1, FirstSlash(s) - 1))
                   b == Number(SubSeq(s, FirstSlash(s) + 1, Len(s)))
               IN IF SubSeq(s, FirstSlash(s) + 1, Len(s)) = <<"0">> THEN Ratio(Zero)
                  ELSE IF ~a.ok \/ ~b.ok THEN Fails("InvalidOperation")
                  ELSE IF b.mag = 0
                       THEN Fails(IF a.mag = 0 THEN "InvalidOperation" ELSE "DivisionByZero")
                  ELSE IF a.neg # b.neg THEN Ratio(Zero)
                  ELSE IF a.mag > b.mag THEN Ratio(One)
                  ELSE Ratio([num |-> a.mag, den |-> b.mag])
          ELSE LET val == Number(s)
               IN IF ~val.ok THEN Fails("InvalidOperation")
                  ELSE IF val.neg THEN Ratio(Zero)
                  ELSE IF val.mag > 100 * Scale THEN Ratio(One)
                  ELSE IF val.mag > Scale THEN Ratio([num |-> val.mag, den |-> 100 * Scale])
                  ELSE Ratio([num |-> val.mag, den |-> Scale])

\* The withholding branch of calculate_kdv_api: num/den or float(w), as it is;
\* ValueError and ZeroDivisionError give the failure response.  A negative
\* ratio has a negative num.
ApiWithholding(w) ==
  IF w = NoWithholding \/ w = <<>> THEN Ratio(Zero)
  ELSE IF "/" \in Range(w)
       THEN LET a == Number(Strip(SubSeq(w, 1, FirstSlash(w) - 1)))
                rest == SubSeq(w, FirstSlash(w) + 1, Len(w))
                b == Number(Strip(rest))
            IN IF "/" \in Range(rest) \/ ~a.ok \/ ~b.ok THEN Fails("ValueError")
               ELSE IF b.mag = 0 THEN Fails("ZeroDivisionError")
               ELSE Ratio([num |-> IF a.neg # b.neg THEN 0 - a.mag ELSE a.mag, den |-> b.mag])
       ELSE LET val == Number(Strip(w))
            IN IF ~val.ok THEN Fails("ValueError")
               ELSE Ratio([num |-> IF val.neg THEN 0 - val.mag ELSE val.mag, den |-> Scale])

NoResult(what) ==
  [err |-> what, price_excl_vat |-> 0, vat_amount |-> 0, price_incl_vat |-> 0,
   withholding_amount |-> 0, payable_vat |-> 0]

\* tevkifat = _q2(kdv * tw), payable = _q2(kdv - tevkifat)
Result(net, kdv, brut, tw, mode) ==
  LET tevkifat == Q2(kdv * tw.num, 100 * tw.den, mode)
  IN [err |-> "", price_excl_vat |-> net, vat_amount |-> kdv, price_incl_vat |-> brut,
      withholding_amount |-> tevkifat, payable_vat |-> kdv - tevkifat]

\* add_vat: kdv = _q2(net * oran), brut = _q2(net + kdv); the net is reported rounded.
AddVat(price, rate, w, mode) ==
  LET oran == NormRate(rate)
      kdv == Q2(price * oran.num, 1000 * oran.den, mode)
      brut == Q2(price + 10 * kdv, 1000, mode)
      tw == ParseWithholding(w)
  IN IF tw.err # "" THEN NoResult(tw.err)
     ELSE Result(Q2(price, 1000, mode), kdv, brut, tw, mode)

\* remove_vat: net = _q2(brut / (1 + oran)), kdv = _q2(brut - net)
RemoveVat(price, rate, w, mode) ==
  LET oran == NormRate(rate)
      net == Q2(price * oran.den, 1000 * (oran.den + oran.num), mode)
      kdv == Q2(price - 10 * net, 1000, mode)
      tw == ParseWithholding(w)
  IN IF tw.err # "" THEN NoResult(tw.err)
     ELSE Result(net, kdv, Q2(price, 1000, mode), tw, mode)

\* The mutated form of FromVatAmount: a zero rate gives a zero net price.
FromVatAmountZeroNet(vat_amount, rate, w, mode) ==
  LET oran == NormRate(rate)
      kdv == Q2(vat_amount, 1000, mode)
      net == IF oran.num = 0 THEN 0 ELSE Q2(kdv * oran.den, 100 * oran.num, mode)
      tw == ParseWithholding(w)
  IN IF tw.err # "" THEN NoResult(tw.err)
     ELSE Result(net, kdv, net + kdv, tw, mode)

\* from_vat_amount: net = _q2(kdv / oran); Decimal signals DivisionByZero for
\* x/0 with x # 0 and InvalidOperation (DivisionUndefined) for 0/0.
FromVatAmount(vat_amount, rate, w, mode) ==
  LET oran == NormRate(rate)
      kdv == Q2(vat_amount, 1000, mode)
      tw == ParseWithholding(w)
  IN IF oran.num = 0
     THEN NoResult(IF kdv = 0 THEN "InvalidOperation" ELSE "DivisionByZero")
     ELSE IF tw.err # "" THEN NoResult(tw.err)
     ELSE LET net == Q2(kdv * oran.den, 100 * oran.num, mode)
          IN Result(net, kdv, net + kdv, tw, mode)

\* api_calc_kdv: any exception gives success false, an empty data payload
\* and status 500.
ApiCalcKdv(res) ==
  IF res.err # ""
  THEN [success |-> FALSE, error |-> res.err, data |-> <<>>, status |-> 500]
  ELSE [success |-> TRUE, error |-> "", data |-> res, status |-> 200]

(***************************************************************************)
(* Calls of the calculator.                                                *)
(***************************************************************************)
Rates == {0, 500, 1000, 20 * 1000, 50 * 1000, 100 * 1000}

Roundings == {"even", "up"}

\* Withholding specifications: fractions and bare numbers.
Withholdings ==
  {NoWithholding,
   <<"7", "/", "1", "0">>, <<" ", "7", " ", "/", " ", "1", "0">>, <<"3", "/", "2">>,
   <<"1", "/", "0">>, <<"1", "/", "0", "0">>, <<"1", "/", "0", ".", "0">>,
   <<"-", "1", "/", "2">>, <<"0", ".", "7">>, <<"1", ".", "5">>, <<"7", "0">>,
   <<"1", "5", "0">>, <<"-", "3">>}

VatArgs(op, amounts, ws) ==
  [op : {op}, amount : amounts, rate : Rates, rounding : Roundings, w : ws]

VatInit ==
  /\ Still
  /\ cPc = "vat"
  /\ cRows = <<>>
  /\ cOut = <<>>
  /\ cArgs \in VatArgs("add", 1..MaxAmount, {NoWithholding})
              \cup VatArgs("from_vat", 0..MaxAmount, {NoWithholding})
              \cup [op : {"withholding"}, amount : {1000}, rate : {20 * 1000},
                    rounding : {"even"}, w : Withholdings]

\* direction "add"
Add ==
  /\ cPc = "vat"
  /\ cArgs.op = "add"
  /\ cOut' = [added |-> AddVat(cArgs.amount, cArgs.rate, cArgs.w, cArgs.rounding)]
  /\ cPc' = "added"
  /\ UNCHANGED <<cRows, cArgs>>
  /\ UNCHANGED normVars
  /\ UNCHANGED cacheVars

\* direction "remove", given the gross price the addition returned
Remove ==
  /\ cPc = "added"
  /\ cOut' = [added |-> cOut.added,
              back |-> RemoveVat(10 * cOut.added.price_incl_vat, cArgs.rate, cArgs.w,
                                 cArgs.rounding)]
  /\ cPc' = "removed"
  /\ UNCHANGED <<cRows, cArgs>>
  /\ UNCHANGED normVars
  /\ UNCHANGED cacheVars

\* direction "from_vat" through the route
Derive ==
  /\ cPc = "vat"
  /\ cArgs.op = "from_vat"
  /\ LET res == FromVatAmount(cArgs.amount, cArgs.rate, cArgs.w, cArgs.rounding)
     IN cOut' = [res |-> res, api |-> ApiCalcKdv(res)]
  /\ cPc' = "derived"
  /\ UNCHANGED <<cRows, cArgs>>
  /\ UNCHANGED normVars
  /\ UNCHANGED cacheVars

\* The ratio each calculator applies for a withholding specification.
Withhold ==
  /\ cPc = "vat"
  /\ cArgs.op = "withholding"
  /\ cOut' = [kdv |-> ParseWithholding(cArgs.w), app |-> ApiWithholding(cArgs.w)]
  /\ cPc' = "withheld"
  /\ UNCHANGED <<cRows, cArgs>>
  /\ UNCHANGED normVars
  /\ UNCHANGED cacheVars

VatNext == Add \/ Remove \/ Derive \/ Withhold

SpecVat == VatInit /\ [][VatNext]_vars

(***************************************************************************)
(* Claims about the VAT calculator (checked under SpecVat).                *)
(***************************************************************************)
\* C18: for a price > 0 and a rate from 0 to 100, under either rounding mode,
\* removing VAT from the gross price that adding VAT produced gives a net
\* price equal to the price rounded to two decimals.
C18_VatRoundTrip ==
  cPc = "removed" =>
     cOut.back.price_excl_vat = Q2(cArgs.amount, 1000, cArgs.rounding)

\* C19 as stated: with rate 0 the derivation fails with a division-by-zero
\* condition for every VAT amount, 0 included, and produces no result; the
\* route answers with a failure and an empty data payload.
C19_ZeroRateIsDivisionByZero ==
  (cPc = "derived" /\ cArgs.rate = 0) =>
     /\ cOut.res.err = "DivisionByZero"
     /\ ~cOut.api.success
     /\ cOut.api.data = <<>>

\* C19 amended: with rate 0 the derivation fails for every VAT amount and
\* produces no result: with a division-by-zero condition when the amount
\* rounded to two decimals is not zero, and with an invalid-operation
\* condition (the undefined division 0/0) when it is zero; the route answers
\* either with a failure and an empty data payload.
C19_ZeroRateIsArithmeticError ==
  (cPc = "derived" /\ cArgs.rate = 0) =>
     /\ cOut.res.err =
          (IF Q2(cArgs.amount, 1000, cArgs.rounding) = 0
           THEN "InvalidOperation" ELSE "DivisionByZero")
     /\ cOut.res = NoResult(cOut.res.err)
     /\ ~cOut.api.success
     /\ cOut.api.data = <<>>
     /\ cOut.api.error = cOut.res.err

\* A VAT amount that is not zero but rounds to zero, under rate 0.
C19_Witness ==
  /\ cPc = "derived"
  /\ cArgs.rate = 0
  /\ cArgs.amount > 0
  /\ cOut.res.err = "InvalidOperation"
  /\ ~cOut.api.success

\* The withholding specification read as the claim reads it.
IsFraction == cArgs.w # NoWithholding /\ "/" \in Range(cArgs.w)

Numerator == Number(RemoveSpaces(SubSeq(cArgs.w, 1, FirstSlash(cArgs.w) - 1)))

Denominator == Number(RemoveSpaces(SubSeq(cArgs.w, FirstSlash(cArgs.w) + 1, Len(cArgs.w))))

Bare == Number(RemoveSpaces(cArgs.w))

IsZeroRatio(r) == r.err = "" /\ r.num = 0

\* The ratio the claim gives for the specification, as a pair num/den.
ClaimedRatio ==
  IF cArgs.w = NoWithholding THEN Zero
  ELSE IF IsFraction
       THEN IF Denominator.mag = 0 \/ Numerator.neg # Denominator.neg THEN Zero
            ELSE IF Numerator.mag > Denominator.mag THEN One
            ELSE [num |-> Numerator.mag, den |-> Denominator.mag]
       ELSE IF Bare.neg THEN Zero
            ELSE IF Bare.mag > 100 * Scale THEN One
            ELSE IF Bare.mag > Scale THEN [num |-> Bare.mag, den |-> 100 * Scale]
            ELSE [num |-> Bare.mag, den |-> Scale]

AppliesClaimedRatio(r) ==
  /\ r.err = ""
  /\ 0 <= r.num /\ r.num <= r.den
  /\ r.num * ClaimedRatio.den = ClaimedRatio.num * r.den

\* C20: the withholding ratio the VAT calculator applies is always within
\* [0,1]: a fraction a/b gives a/b clamped to [0,1], any zero denominator
\* gives 0, a bare number above 1 is divided by 100 and then clamped, a
\* negative value gives 0 and an absent withholding gives 0.
C20_WithholdingRatioWithinUnit ==
  cPc = "withheld" =>
     /\ AppliesClaimedRatio(cOut.kdv)
     /\ AppliesClaimedRatio(cOut.app)

(***************************************************************************)
(* The desi calculator (src/calculators/desi.py).                          *)
(*                                                                         *)
(* An argument is what the caller supplies: a number (whole centimetres    *)
(* here), the float NaN (the JSON literal NaN or the text "nan"), None,    *)
(* the texts "" and "null", or a text that is no number.  A float is       *)
(* either NaN or an exact quotient num/den.                                *)
(***************************************************************************)
Num(n) == [t |-> "num", v |-> n]

NotANumber == [t |-> "nan", v |-> 0]

Absent == [t |-> "none", v |-> 0]

Blank == [t |-> "empty", v |-> 0]

NullText == [t |-> "null", v |-> 0]

Word == [t |-> "text", v |-> 0]

DefaultDesiFactor == 3000

\* float(x): ValueError or TypeError for None and for a text that is no number.
ToFloat(x) ==
  [ok |-> x.t \in {"num", "nan"}, nan |-> x.t = "nan", num |-> x.v, den |-> 1]

\* f <= 0, which is false of NaN.
AtMostZero(f) == ~f.nan /\ f.num <= 0

RECURSIVE Gcd(_, _)
Gcd(a, b) == IF b = 0 THEN a ELSE Gcd(b, a % b)

\* The quotient n/d in lowest terms (d > 0), NaN when nan holds.
Quotient(nan, n, d) ==
  LET g == IF nan \/ n = 0 THEN 1 ELSE Gcd(IF n < 0 THEN 0 - n ELSE n, d)
  IN [ok |-> TRUE, nan |-> nan, num |-> IF nan THEN 0 ELSE n \div g,
      den |-> IF nan \/ n = 0 THEN 1 ELSE d \div g]

Times(a, b) == Quotient(a.nan \/ b.nan, a.num * b.num, a.den * b.den)

\* a / b for b > 0 or b NaN
Over(a, b) == Quotient(a.nan \/ b.nan, a.num * b.den, a.den * b.num)

Million == Quotient(FALSE, 1000 * 1000, 1)

SameFloat(a, b) == (a.nan /\ b.nan) \/ (~a.nan /\ ~b.nan /\ a.num * b.den = b.num * a.den)

DesiRaises(what) == [err |-> what]

\* calculate_desi
CalculateDesi(width, height, length, desi_factor) ==
  LET w == ToFloat(width)
      h == ToFloat(height)
      l == ToFloat(length)
      factor == ToFloat(desi_factor)
      volume_cm3 == Times(Times(w, h), l)
      desi == Over(volume_cm3, factor)
  IN IF ~w.ok \/ ~h.ok \/ ~l.ok \/ ~factor.ok THEN DesiRaises("ValueError: not a number")
     ELSE IF AtMostZero(w) \/ AtMostZero(h) \/ AtMostZero(l)
          THEN DesiRaises("ValueError: dimensions must be positive")
     ELSE IF AtMostZero(factor) THEN DesiRaises("ValueError: factor must be positive")
     ELSE [err |-> "", width |-> w, height |-> h, length |-> l,
           volume_cm3 |-> volume_cm3, volume_m3 |-> Over(volume_cm3, Million),
           desi |-> desi, volumetric_weight |-> desi, desi_factor |-> factor]

DesiFailure(what) == [success |-> FALSE, error |-> what, data |-> <<>>]

\* x not in (None, "", "null")
Given(x) == x.t \notin {"none", "empty", "null"}

\* calculate_desi_api: data.get of the four keys, the None checks, the
\* conversion (a blank dimension is 0, a blank factor is 3000), the
\* validation, and the call of calculate_desi.
CalculateDesiApi(request) ==
  LET width == IF Given(request.width) THEN request.width ELSE Num(0)
      height == IF Given(request.height) THEN request.height ELSE Num(0)
      length == IF Given(request.length) THEN request.length ELSE Num(0)
      desi_factor == IF Given(request.desi_factor) THEN request.desi_factor
                     ELSE Num(DefaultDesiFactor)
      result == CalculateDesi(width, height, length, desi_factor)
  IN IF request.width = Absent THEN DesiFailure("width required")
     ELSE IF request.height = Absent THEN DesiFailure("height required")
     ELSE IF request.length = Absent THEN DesiFailure("length required")
     ELSE IF \E x \in {width, height, length, desi_factor} : ~ToFloat(x).ok
          THEN DesiFailure("not a number")
     ELSE IF \E x \in {width, height, length} : AtMostZero(ToFloat(x))
          THEN DesiFailure("dimensions must be positive")
     ELSE IF AtMostZero(ToFloat(desi_factor)) THEN DesiFailure("factor must be positive")
     ELSE IF result.err # "" THEN DesiFailure(result.err)
     ELSE [success |-> TRUE, error |-> "", data |-> result]

(***************************************************************************)
(* Calls of the desi calculator.                                           *)
(***************************************************************************)
Dimensions == {Num(0 - 5), Num(0), Num(2), Num(30), NotANumber, Absent, Blank, Word}

Factors == {Num(0 - 1), Num(0), Num(2), Num(DefaultDesiFactor), NotANumber, Absent,
            Blank, NullText, Word}

DesiInit ==
  /\ Still
  /\ cPc = "desi"
  /\ cRows = <<>>
  /\ cOut = <<>>
  /\ cArgs \in [width : Dimensions, height : Dimensions, length : Dimensions,
                desi_factor : Factors]

\* calculate_desi called with the arguments as they are; a factor that is
\* not passed takes the default of the signature.
Desi ==
  /\ cPc = "desi"
  /\ cOut' = [core |-> CalculateDesi(cArgs.width, cArgs.height, cArgs.length,
                                     IF cArgs.desi_factor = Absent
                                     THEN Num(DefaultDesiFactor) ELSE cArgs.desi_factor)]
  /\ cPc' = "core"
  /\ UNCHANGED <<cRows, cArgs>>
  /\ UNCHANGED normVars
  /\ UNCHANGED cacheVars

\* calculate_desi_api called with the same arguments as a request
DesiApi ==
  /\ cPc = "core"
  /\ cOut' = [core |-> cOut.core, api |-> CalculateDesiApi(cArgs)]
  /\ cPc' = "sized"
  /\ UNCHANGED <<cRows, cArgs>>
  /\ UNCHANGED normVars
  /\ UNCHANGED cacheVars

DesiNext == Desi \/ DesiApi

SpecDesi == DesiInit /\ [][DesiNext]_vars

(***************************************************************************)
(* Claims about the desi calculator (checked under SpecDesi).              *)
(***************************************************************************)
\* The four inputs of the call, the factor being 3000 when it is not given.
Supplied ==
  <<cArgs.width, cArgs.height, cArgs.length,
    IF cArgs.desi_factor = Absent THEN Num(DefaultDesiFactor) ELSE cArgs.desi_factor>>

\* A numeric input that is not strictly positive: a number <= 0, or NaN.
NotPositive(x) == x.t = "nan" \/ (x.t = "num" /\ x.v <= 0)

StrictlyPositive(x) == x.t = "num" /\ x.v > 0

\* width * height * length / desiFactor of the inputs
ClaimedDesi ==
  Quotient(FALSE, Supplied[1].v * Supplied[2].v * Supplied[3].v, Supplied[4].v)

DesiAsClaimed(res) ==
  /\ SameFloat(res.desi, ClaimedDesi)
  /\ SameFloat(res.volumetric_weight, res.desi)

\* C21: calculateDesi fails with a validation error and an empty data
\* payload whenever one of width, height, length and desiFactor is not
\* strictly positive, and succeeds for strictly positive inputs with
\* desi = width * height * length / desiFactor and volumetricWeight = desi.
C21_DesiRejectsNonPositiveInputs ==
  cPc = "sized" =>
     /\ (\E i \in 1..4 : NotPositive(Supplied[i])) =>
           /\ cOut.core.err # ""
           /\ ~cOut.api.success
           /\ cOut.api.data = <<>>
     /\ (\A i \in 1..4 : StrictlyPositive(Supplied[i])) =>
           /\ cOut.core.err = ""
           /\ DesiAsClaimed(cOut.core)
           /\ cOut.api.success
           /\ DesiAsClaimed(cOut.api.data)

(***************************************************************************)
(* The secondary freight calculator (src/calculators/hepsijet_kargo.py).   *)
(*                                                                         *)
(* Weights (kg), prices (TL) and multipliers are exact quotients num/den;  *)
(* an actual weight is given in grams and a dimension in whole             *)
(* centimetres.                                                            *)
(***************************************************************************)
R(n, d) == Quotient(FALSE, n, d)

Plus(a, b) == Quotient(a.nan \/ b.nan, a.num * b.den + b.num * a.den, a.den * b.den)

Minus(a, b) == Quotient(a.nan \/ b.nan, a.num * b.den - b.num * a.den, a.den * b.den)

\* a <= b and a < b on floats (denominators are positive); false of NaN
AtMost(a, b) == ~a.nan /\ ~b.nan /\ a.num * b.den <= b.num * a.den

Below(a, b) == ~a.nan /\ ~b.nan /\ a.num * b.den < b.num * a.den

\* max(a, b) of Python: b when b > a, a otherwise
MaxOf(a, b) == IF Below(a, b) THEN b ELSE a

\* BASE_PRICES in the order the dictionary is written
BASE_PRICES ==
  <<[limit |-> R(1, 2), price |-> R(15, 1)], [limit |-> R(1, 1), price |-> R(20, 1)],
    [limit |-> R(2, 1), price |-> R(25, 1)], [limit |-> R(3, 1), price |-> R(30, 1)],
    [limit |-> R(5, 1), price |-> R(40, 1)], [limit |-> R(10, 1), price |-> R(60, 1)],
    [limit |-> R(20, 1), price |-> R(100, 1)], [limit |-> R(30, 1), price |-> R(140, 1)],
    [limit |-> R(50, 1), price |-> R(200, 1)]>>

ServiceTypes == {"standard", "fast", "next_day", "same_day"}

RegionTypes == {"same_city", "nearby_city", "far_city", "remote_area"}

SERVICE_MULTIPLIERS(service_type) ==
  CASE service_type = "standard" -> R(10, 10)
    [] service_type = "fast" -> R(13, 10)
    [] service_type = "next_day" -> R(15, 10)
    [] service_type = "same_day" -> R(20, 10)

REGION_MULTIPLIERS(region_type) ==
  CASE region_type = "same_city" -> R(10, 10)
    [] region_type = "nearby_city" -> R(12, 10)
    [] region_type = "far_city" -> R(15, 10)
    [] region_type = "remote_area" -> R(20, 10)

\* sorted(BASE_PRICES.items()): ascending by weight limit
RECURSIVE SortedItems(_)
SortedItems(items) ==
  IF items = {} THEN <<>>
  ELSE LET least == CHOOSE x \in items : \A y \in items : AtMost(x.limit, y.limit)
       IN <<least>> \o SortedItems(items \ {least})

\* The price per extra kilogram above the highest limit.
ExtraPerKg == R(3, 1)

\* The mutated form of GetBasePrice: a weight equal to a limit takes the next
\* breakpoint.
GetBasePriceStrict(weight) ==
  LET items == SortedItems(Range(BASE_PRICES))
      fits == {j \in DOMAIN items : Below(weight, items[j].limit)}
      top == items[Len(items)]
  IN IF fits # {} THEN items[CHOOSE j \in fits : \A k \in fits : j <= k].price
     ELSE Plus(top.price, Times(Minus(weight, top.limit), ExtraPerKg))

\* get_base_price
GetBasePrice(weight) ==
  LET items == SortedItems(Range(BASE_PRICES))
      fits == {j \in DOMAIN items : AtMost(weight, items[j].limit)}
      top == CHOOSE x \in Range(BASE_PRICES) :
                \A y \in Range(BASE_PRICES) : AtMost(y.limit, x.limit)
  IN IF fits # {} THEN items[CHOOSE j \in fits : \A k \in fits : j <= k].price
     ELSE Plus(top.price, Times(Minus(weight, top.limit), ExtraPerKg))

\* calculate_desi_weight
CalculateDesiWeight(width, height, length, desi_factor) ==
  Over(Times(Times(width, height), length), desi_factor)

CargoRaises(what) == [err |-> what]

\* calculate_hepsiburada_cargo
CalculateHepsiburadaCargo(actual_weight, width, height, length, service_type, region_type, desi_factor) ==
  LET desi_weight == CalculateDesiWeight(width, height, length, desi_factor)
      heavier == IF AtMost(desi_weight, actual_weight) THEN actual_weight ELSE desi_weight
      billable_weight == MaxOf(heavier, R(1, 2))
      base_price == GetBasePrice(billable_weight)
      service_multiplier == SERVICE_MULTIPLIERS(service_type)
      region_multiplier == REGION_MULTIPLIERS(region_type)
  IN IF service_type \notin ServiceTypes \/ region_type \notin RegionTypes
     THEN CargoRaises("ValueError")
     ELSE IF desi_factor.num = 0 THEN CargoRaises("ZeroDivisionError")
     ELSE [err |-> "", desi_weight |-> desi_weight, billable_weight |-> billable_weight,
           base_price |-> base_price, service_multiplier |-> service_multiplier,
           region_multiplier |-> region_multiplier,
           total_price |-> Times(Times(base_price, service_multiplier), region_multiplier),
           used_weight_type |->
             IF AtMost(desi_weight, actual_weight) THEN "actual" ELSE "desi"]

\* calculate_hepsiburada_cargo_api, for numeric arguments
CalculateHepsiburadaCargoApi(request) ==
  LET actual_weight == R(request.actual_weight, 1000)
      width == R(request.width, 1)
      height == R(request.height, 1)
      length == R(request.length, 1)
      desi_factor == R(request.desi_factor, 1)
      result == CalculateHepsiburadaCargo(actual_weight, width, height, length,
                                          request.service_type, request.region_type,
                                          desi_factor)
  IN IF AtMost(actual_weight, R(0, 1)) THEN DesiFailure("weight must be positive")
     ELSE IF \E x \in {width, height, length} : AtMost(x, R(0, 1))
          THEN DesiFailure("dimensions must be positive")
     ELSE IF AtMost(desi_factor, R(0, 1)) THEN DesiFailure("factor must be positive")
     ELSE IF request.service_type \notin ServiceTypes THEN DesiFailure("service type")
     ELSE IF request.region_type \notin RegionTypes THEN DesiFailure("region type")
     ELSE IF result.err # "" THEN DesiFailure(result.err)
     ELSE [success |-> TRUE, error |-> "", data |-> result]

(***************************************************************************)
(* Calls of the freight calculator.                                        *)
(***************************************************************************)
Grams == {0, 200, 500, 1000, 2500, 50 * 1000, 60 * 1000}

Centimetres == {0, 10, 30, 60}

CargoFactors == {DefaultDesiFactor, 5000}

CargoInit ==
  /\ Still
  /\ cPc = "cargo"
  /\ cRows = <<>>
  /\ cOut = <<>>
  /\ cArgs \in [actual_weight : Grams, width : Centimetres, height : Centimetres,
                length : {10, 60}, service_type : ServiceTypes \cup {"express"},
                region_type : RegionTypes, desi_factor : CargoFactors]

Cargo ==
  /\ cPc = "cargo"
  /\ cOut' = [api |-> CalculateHepsiburadaCargoApi(cArgs)]
  /\ cPc' = "priced"
  /\ UNCHANGED <<cRows, cArgs>>
  /\ UNCHANGED normVars
  /\ UNCHANGED cacheVars

CargoNext == Cargo

SpecCargo == CargoInit /\ [][CargoNext]_vars

(***************************************************************************)
(* Claims about the freight calculator (checked under SpecCargo).          *)
(***************************************************************************)
\* w = max(actualWeight, desiWeight, 0.5)
ClaimedWeight ==
  LET weights == {R(cArgs.actual_weight, 1000),
                  R(cArgs.width * cArgs.height * cArgs.length, cArgs.desi_factor),
                  R(1, 2)}
  IN CHOOSE x \in weights : \A y \in weights : AtMost(y, x)

\* The price of the least breakpoint that is >= w, or the last breakpoint's
\* price plus the charge on the excess.
ClaimedBasePrice(w) ==
  LET reach == {b \in Range(BASE_PRICES) : AtMost(w, b.limit)}
      last == CHOOSE b \in Range(BASE_PRICES) :
                 \A c \in Range(BASE_PRICES) : AtMost(c.limit, b.limit)
  IN IF reach # {}
     THEN (CHOOSE b \in reach : \A c \in reach : AtMost(b.limit, c.limit)).price
     ELSE Plus(last.price, Times(ExtraPerKg, Minus(w, last.limit)))

\* C22: the total price of the secondary freight calculator is
\* basePrice(w) * serviceMultiplier * regionMultiplier, with
\* w = max(actualWeight, desiWeight, 0.5) and basePrice(w) the price of the
\* first breakpoint >= w, or beyond the last breakpoint its price plus a
\* linear charge on the excess weight.
C22_FreightTotalFromBreakpoints ==
  (cPc = "priced" /\ cOut.api.success) =>
     /\ SameFloat(cOut.api.data.billable_weight, ClaimedWeight)
     /\ SameFloat(cOut.api.data.base_price, ClaimedBasePrice(ClaimedWeight))
     /\ SameFloat(cOut.api.data.total_price,
                  Times(Times(ClaimedBasePrice(ClaimedWeight),
                              SERVICE_MULTIPLIERS(cArgs.service_type)),
                        REGION_MULTIPLIERS(cArgs.region_type)))

\* A parcel billed by its desi weight at exactly a breakpoint (30 x 10 x 10
\* at factor 3000 is 1 kg), sent fast to a far city.
C22_Witness ==
  /\ cPc = "priced"
  /\ cOut.api.success
  /\ cOut.api.data.used_weight_type = "desi"
  /\ SameFloat(cOut.api.data.billable_weight, R(1, 1))
  /\ cArgs.service_type = "fast"
  /\ cArgs.region_type = "far_city"
  /\ SameFloat(cOut.api.data.total_price, R(39, 1))

(***************************************************************************)
(* The commission / profit calculator (calculate_commission, src/app.py).  *)
(*                                                                         *)
(* A price parameter is a number of hundredths (cents) and a percentage a  *)
(* whole number, or it is absent, blank, or a text that is no number.  The *)
(* figures are computed as exact quotients and reported in cents (in       *)
(* hundredths of a percent for the margin).  The code computes in binary   *)
(* floating point: which neighbour round(x, 2) gives for an x that lies    *)
(* exactly halfway between two cents depends on the representation error   *)
(* of the double, so the direction of a tie is an input of the call.       *)
(***************************************************************************)
TieDirections == {"down", "up"}

\* float(params.get(name, 0) or 0), a price: None, "", 0 and an absent key
\* give 0; a text that is no number raises ValueError.
PriceParam(x) ==
  [ok |-> x.t \notin {"text", "null"}, val |-> IF x.t = "num" THEN R(x.v, 100) ELSE R(0, 1)]

\* The same for a percentage.
PercentParam(x) ==
  [ok |-> x.t \notin {"text", "null"}, val |-> IF x.t = "num" THEN R(x.v, 1) ELSE R(0, 1)]

Hundred == R(100, 1)

\* round(x, 2) in hundredths
Round2(x, tie) ==
  LET n == 100 * x.num
      q == n \div x.den
      twice == 2 * (n % x.den)
  IN IF twice > x.den THEN q + 1
     ELSE IF twice < x.den THEN q
     ELSE IF tie = "up" THEN q + 1 ELSE q

\* _extract_vat_share
ExtractVatShare(gross, vat_percent) ==
  IF Below(R(0, 1), vat_percent)
  THEN Times(gross, Over(vat_percent, Plus(Hundred, vat_percent)))
  ELSE R(0, 1)

\* The mutated form of Payout: the cargo price is not deducted.
PayoutWithoutCargo(sale_price, commission_amount, service_amount, export_amount, cargo_deduction) ==
  Minus(sale_price, Plus(Plus(commission_amount, service_amount), export_amount))

\* payout = sale_price - (commission_amount + service_amount + export_amount
\*                        + cargo_deduction)
Payout(sale_price, commission_amount, service_amount, export_amount, cargo_deduction) ==
  Minus(sale_price,
        Plus(Plus(Plus(commission_amount, service_amount), export_amount), cargo_deduction))

\* The mutated form of InputVat: the fee VATs are deducted whatever the flag.
InputVatWithFees(include_vat_deduction, buy_vat, comm_vat, serv_vat, exp_vat) ==
  Plus(buy_vat, Plus(Plus(comm_vat, serv_vat), exp_vat))

\* input_vat = buy_vat; if include_vat_deduction: input_vat += comm_vat +
\* serv_vat + exp_vat
InputVat(include_vat_deduction, buy_vat, comm_vat, serv_vat, exp_vat) ==
  IF include_vat_deduction THEN Plus(buy_vat, Plus(Plus(comm_vat, serv_vat), exp_vat))
  ELSE buy_vat

\* _empty_calc_result
EmptyCalcResult(marketplace_id, error_msg) ==
  [raised |-> "", marketplace |-> marketplace_id, payout |-> 0, netProfit |-> 0,
   profitMargin |-> 0, netMargin |-> 0, detailedProfitNet |-> 0, commissionAmount |-> 0,
   serviceAmount |-> 0, exportAmount |-> 0, cargoDeduction |-> 0, saleVat |-> 0,
   buyVat |-> 0, commVat |-> 0, servVat |-> 0, expVat |-> 0, inputVat |-> 0,
   vatPayable |-> 0, error |-> error_msg]

\* An exception leaves calculate_commission: there is no result.
CalcRaises(what) == [EmptyCalcResult("", "") EXCEPT !.raised = what]

SalePriceMessage == "Satis fiyati 0'dan buyuk olmalidir"

\* calculate_commission
CalculateCommission(marketplace_id, params, tie) ==
  LET sale == PriceParam(params.salePrice)
      buy == PriceParam(params.buyPrice)
      cargo == PriceParam(params.cargoPrice)
      vat == PercentParam(params.vatPercent)
      commission == PercentParam(params.commissionPercent)
      service == PercentParam(params.servicePercent)
      export == PercentParam(params.exportPercent)
      sale_price == sale.val
      vat_percent == vat.val
      commission_amount == Over(Times(sale_price, commission.val), Hundred)
      service_amount == Over(Times(sale_price, service.val), Hundred)
      export_amount == Over(Times(sale_price, export.val), Hundred)
      cargo_deduction == cargo.val
      payout == Payout(sale_price, commission_amount, service_amount, export_amount,
                       cargo_deduction)
      net_profit == Minus(payout, buy.val)
      profit_margin == Times(Over(net_profit, sale_price), Hundred)
      sale_vat == ExtractVatShare(sale_price, vat_percent)
      buy_vat == ExtractVatShare(buy.val, vat_percent)
      comm_vat == ExtractVatShare(commission_amount, vat_percent)
      serv_vat == ExtractVatShare(service_amount, vat_percent)
      exp_vat == ExtractVatShare(export_amount, vat_percent)
      input_vat == InputVat(params.includeVatDeduction, buy_vat, comm_vat, serv_vat, exp_vat)
      vat_payable == MaxOf(Minus(sale_vat, input_vat), R(0, 1))
  IN IF \E x \in {sale, buy, cargo, vat, commission, service, export} : ~x.ok
     THEN CalcRaises("ValueError")
     ELSE IF AtMost(sale_price, R(0, 1))
     THEN EmptyCalcResult(marketplace_id, SalePriceMessage)
     ELSE [raised |-> "", marketplace |-> marketplace_id,
           payout |-> Round2(payout, tie), netProfit |-> Round2(net_profit, tie),
           profitMargin |-> Round2(profit_margin, tie),
           netMargin |-> Round2(profit_margin, tie),
           detailedProfitNet |-> Round2(net_profit, tie),
           commissionAmount |-> Round2(commission_amount, tie),
           serviceAmount |-> Round2(service_amount, tie),
           exportAmount |-> Round2(export_amount, tie),
           cargoDeduction |-> Round2(cargo_deduction, tie),
           saleVat |-> Round2(sale_vat, tie), buyVat |-> Round2(buy_vat, tie),
           commVat |-> Round2(comm_vat, tie), servVat |-> Round2(serv_vat, tie),
           expVat |-> Round2(exp_vat, tie), inputVat |-> Round2(input_vat, tie),
           vatPayable |-> Round2(vat_payable, tie), error |-> ""]

(***************************************************************************)
(* Calls of the commission / profit calculator: one call, and a second     *)
(* call that differs in the VAT percent and the deduction flag only.       *)
(***************************************************************************)
SalePrices == {Absent, Num(0), Num(0 - 100), Num(10), Num(200), Num(200 * 100)}

BuyPrices == {Absent, Num(100), Num(100 * 100), Word}

CargoPrices == {Num(0), Num(20 * 100)}

VatPercents == {Num(0), Num(18), Num(20)}

FeePercents == {Num(0), Num(4), Num(10), Num(0 - 10)}

ProfitParams ==
  [salePrice : SalePrices, buyPrice : BuyPrices, cargoPrice : CargoPrices,
   vatPercent : VatPercents, commissionPercent : FeePercents,
   servicePercent : {Num(0), Num(4)}, exportPercent : {Blank, Num(5)},
   includeVatDeduction : BOOLEAN]

ProfitInit ==
  /\ Still
  /\ cPc = "profit"
  /\ cRows = <<>>
  /\ cOut = <<>>
  /\ cArgs \in [params : ProfitParams, tie : TieDirections,
                other : [vatPercent : {Num(0), Num(20)}, includeVatDeduction : BOOLEAN]]

Calculate ==
  /\ cPc = "profit"
  /\ cOut' = [res |-> CalculateCommission("trendyol", cArgs.params, cArgs.tie)]
  /\ cPc' = "calculated"
  /\ UNCHANGED <<cRows, cArgs>>
  /\ UNCHANGED normVars
  /\ UNCHANGED cacheVars

Recalculate ==
  /\ cPc = "calculated"
  /\ cOut' = [res |-> cOut.res,
              again |-> CalculateCommission(
                          "trendyol",
                          [cArgs.params EXCEPT
                             !.vatPercent = cArgs.other.vatPercent,
                             !.includeVatDeduction = cArgs.other.includeVatDeduction],
                          cArgs.tie)]
  /\ cPc' = "recalculated"
  /\ UNCHANGED <<cRows, cArgs>>
  /\ UNCHANGED normVars
  /\ UNCHANGED cacheVars

ProfitNext == Calculate \/ Recalculate

SpecProfit == ProfitInit /\ [][ProfitNext]_vars

(***************************************************************************)
(* Claims about the commission / profit calculator (checked under          *)
(* SpecProfit).  Amounts are in cents and percentages are whole numbers;   *)
(* an absent or blank parameter counts as 0.                               *)
(***************************************************************************)
Given0(x) == IF x.t = "num" THEN x.v ELSE 0

AllNumeric ==
  \A x \in {cArgs.params.salePrice, cArgs.params.buyPrice, cArgs.params.cargoPrice,
            cArgs.params.vatPercent, cArgs.params.commissionPercent,
            cArgs.params.servicePercent, cArgs.params.exportPercent} :
     x.t \notin {"text", "null"}

SaleCents == Given0(cArgs.params.salePrice)

BuyCents == Given0(cArgs.params.buyPrice)

CargoCents == Given0(cArgs.params.cargoPrice)

\* The percentages of the sale price, the payout and the net profit, exactly,
\* in hundredths of a cent.
ExactCommission == SaleCents * Given0(cArgs.params.commissionPercent)

ExactService == SaleCents * Given0(cArgs.params.servicePercent)

ExactExport == SaleCents * Given0(cArgs.params.exportPercent)

ExactPayout ==
  100 * SaleCents - (ExactCommission + ExactService + ExactExport + 100 * CargoCents)

ExactNetProfit == ExactPayout - 100 * BuyCents

\* The reported figure is the exact value x rounded to two decimals (to
\* either neighbour when x is exactly halfway).
Rounds(reported, x) == reported \in {Round2(x, "down"), Round2(x, "up")}

\* The second call reports the same payout figures as the first.
SamePayoutFigures ==
  /\ cOut.again.commissionAmount = cOut.res.commissionAmount
  /\ cOut.again.serviceAmount = cOut.res.serviceAmount
  /\ cOut.again.exportAmount = cOut.res.exportAmount
  /\ cOut.again.payout = cOut.res.payout
  /\ cOut.again.netProfit = cOut.res.netProfit
  /\ cOut.again.profitMargin = cOut.res.profitMargin

\* C23 as stated: for a sale price > 0 the reported commission, service and
\* export amounts are the given percentages of the sale price, the reported
\* payout is the sale price less the reported amounts and the cargo price,
\* netProfit = payout - buyPrice, profitMargin = netProfit / salePrice * 100,
\* and these figures do not depend on the VAT percent or the deduction flag.
C23_PayoutFiguresExact ==
  (cPc = "recalculated" /\ AllNumeric /\ SaleCents > 0) =>
     /\ cOut.res.raised = ""
     /\ 100 * cOut.res.commissionAmount = ExactCommission
     /\ 100 * cOut.res.serviceAmount = ExactService
     /\ 100 * cOut.res.exportAmount = ExactExport
     /\ cOut.res.payout =
          SaleCents - (cOut.res.commissionAmount + cOut.res.serviceAmount
                       + cOut.res.exportAmount + CargoCents)
     /\ cOut.res.netProfit = cOut.res.payout - BuyCents
     /\ cOut.res.profitMargin * SaleCents = cOut.res.netProfit * 100 * 100
     /\ SamePayoutFigures

\* C23 amended: for a sale price > 0 each of these figures is reported
\* rounded to two decimals: the amounts are the given percentages of the sale
\* price, the payout is the sale price less the unrounded amounts and the
\* cargo price, the net profit is the unrounded payout less the buy price,
\* the margin is the unrounded net profit over the sale price times 100; they
\* do not depend on the VAT percent or the deduction flag.
C23_PayoutFiguresRounded ==
  (cPc = "recalculated" /\ AllNumeric /\ SaleCents > 0) =>
     /\ cOut.res.raised = ""
     /\ Rounds(cOut.res.commissionAmount, R(ExactCommission, 100 * 100))
     /\ Rounds(cOut.res.serviceAmount, R(ExactService, 100 * 100))
     /\ Rounds(cOut.res.exportAmount, R(ExactExport, 100 * 100))
     /\ Rounds(cOut.res.payout, R(ExactPayout, 100 * 100))
     /\ Rounds(cOut.res.netProfit, R(ExactNetProfit, 100 * 100))
     /\ Rounds(cOut.res.profitMargin, R(100 * ExactNetProfit, 100 * SaleCents))
     /\ SamePayoutFigures

\* A sale whose fee amounts have a fraction of a cent, so that the reported
\* payout is not the sale price less the reported amounts, calculated again
\* under another VAT percent.
C23_Witness ==
  /\ cPc = "recalculated"
  /\ AllNumeric
  /\ SaleCents > 0
  /\ ExactCommission % 100 # 0
  /\ cOut.res.payout # SaleCents - (cOut.res.commissionAmount + cOut.res.serviceAmount
                                    + cOut.res.exportAmount + CargoCents)
  /\ cArgs.other.vatPercent # cArgs.params.vatPercent
  /\ cOut.again.raised = ""

\* gross * rate / (100 + rate), exactly, for a gross amount in hundredths of a
\* cent; 0 when the rate is not positive.
ExactShare(gross) ==
  IF Given0(cArgs.params.vatPercent) > 0
  THEN R(gross * Given0(cArgs.params.vatPercent),
         100 * 100 * (100 + Given0(cArgs.params.vatPercent)))
  ELSE R(0, 1)

ExactFeeVats ==
  Plus(ExactShare(ExactCommission), Plus(ExactShare(ExactService), ExactShare(ExactExport)))

ExactInputVat ==
  IF cArgs.params.includeVatDeduction
  THEN Plus(ExactShare(100 * BuyCents), ExactFeeVats)
  ELSE ExactShare(100 * BuyCents)

ExactPayableVat ==
  LET d == Minus(ExactShare(100 * SaleCents), ExactInputVat)
  IN IF d.num < 0 THEN R(0, 1) ELSE d

\* The second call has the deduction flag turned on and nothing else changed.
FlagTurnedOn ==
  /\ ~cArgs.params.includeVatDeduction
  /\ cArgs.other.includeVatDeduction
  /\ cArgs.other.vatPercent = cArgs.params.vatPercent

NoNegativeFee ==
  /\ Given0(cArgs.params.commissionPercent) >= 0
  /\ Given0(cArgs.params.servicePercent) >= 0
  /\ Given0(cArgs.params.exportPercent) >= 0

\* C24 as stated: in every result payableVat = max(saleVat - inputVat, 0) and
\* is not negative, inputVat is buyVat when the flag is off and
\* buyVat + commVat + servVat + expVat when it is on, and turning the flag on
\* never increases payableVat.
C24_PayableVatFromReportedFigures ==
  (cPc = "recalculated" /\ cOut.res.raised = "") =>
     /\ cOut.res.vatPayable =
          (IF cOut.res.saleVat - cOut.res.inputVat > 0
           THEN cOut.res.saleVat - cOut.res.inputVat ELSE 0)
     /\ cOut.res.vatPayable >= 0
     /\ cOut.res.inputVat =
          (IF cArgs.params.includeVatDeduction
           THEN cOut.res.buyVat + cOut.res.commVat + cOut.res.servVat + cOut.res.expVat
           ELSE cOut.res.buyVat)
     /\ (FlagTurnedOn /\ cOut.again.raised = "") =>
           cOut.again.vatPayable <= cOut.res.vatPayable

\* C24 amended: in every result payableVat is max(saleVat - inputVat, 0)
\* taken on the unrounded VAT shares and then rounded to two decimals, and is
\* not negative; inputVat is the unrounded buyVat when the flag is off and the
\* unrounded sum of buyVat and the three fee VATs when it is on, rounded to
\* two decimals; with no negative fee percentage, turning the flag on never
\* increases payableVat.
C24_PayableVatFromUnroundedShares ==
  (cPc = "recalculated" /\ cOut.res.raised = "") =>
     /\ SaleCents > 0 =>
           /\ Rounds(cOut.res.vatPayable, ExactPayableVat)
           /\ Rounds(cOut.res.inputVat, ExactInputVat)
     /\ cOut.res.vatPayable >= 0
     /\ (FlagTurnedOn /\ NoNegativeFee /\ cOut.again.raised = "") =>
           cOut.again.vatPayable <= cOut.res.vatPayable

\* A sale of 2.00 bought at 1.00 under 20% VAT: saleVat 0.33, inputVat 0.17
\* and payableVat 0.17; and the flag turned on in the second call.
C24_Witness ==
  /\ cPc = "recalculated"
  /\ cOut.res.raised = ""
  /\ SaleCents > 0
  /\ cOut.res.vatPayable > 0
  /\ cOut.res.vatPayable # cOut.res.saleVat - cOut.res.inputVat
  /\ FlagTurnedOn
  /\ NoNegativeFee
  /\ cOut.again.vatPayable < cOut.res.vatPayable

\* C25: with a sale price <= 0 or absent the call does not raise: it returns
\* a result in which every monetary and percentage field is 0 and which
\* carries the error message, whatever the other parameters are.
C25_NonPositiveSaleGivesZeroedResult ==
  (cPc = "calculated" /\ cArgs.params.salePrice.t \in {"num", "none"} /\ SaleCents <= 0) =>
     /\ cOut.res.raised = ""
     /\ cOut.res = EmptyCalcResult("trendyol", SalePriceMessage)

\* C26: a public core operation returns a structured success or failure
\* value for every input, non-numeric ones included; no exception reaches
\* its caller.
C26_NoExceptionReachesCaller ==
  cPc \in {"calculated", "recalculated"} => cOut.res.raised = ""

(***************************************************************************)
(* Claims about overlapping refresh calls (checked under SpecConc).        *)
(***************************************************************************)
\* Every refresh call has run to its end.
AllCompleted(t) == \A v \in Workers : t[v].pc \in {"done", "idle"}

\* Worker w writes the recorded time of marketplace k, having loaded the
\* version the file still has, and with that write every call is complete.
LastTimestampWrite(w, k) ==
  /\ thr[w].pc = "mtime"
  /\ thr[w].i = k
  /\ mtimes' # mtimes \/ thr'[w].changed
  /\ files[k].exists
  /\ thr[w].c = files[k].content
  /\ thr[w].m = files[k].mtime
  /\ AllCompleted(thr')

\* The recorded time of k is the file's, and the snapshot holds rows that
\* were loaded, but not from the file as it is.
StaleMarkedCurrent(k) ==
  /\ files'[k].exists
  /\ mtimes'[k] = files'[k].mtime
  /\ heap'[data'[k]] # <<>>
  /\ heap'[data'[k]] # LoadVersion(k, files'[k].content).rows

\* C27: under any interleaving of two refresh calls around a file change,
\* once both calls have completed the recorded time is not the file's current
\* modification time while the snapshot holds rows of an older version: the
\* snapshot write and the timestamp write of one call are not split by those
\* of the other.
C27_NoStaleRowsMarkedCurrent ==
  [][\A w \in Workers : \A k \in Keys :
        LastTimestampWrite(w, k) => ~StaleMarkedCurrent(k)]_vars

(***************************************************************************)
(* Claims about a file that comes back (checked under SpecSeq).            *)
(***************************************************************************)
\* The snapshot of k holds rows of another version of the file, written
\* under the modification time that is recorded: a change of content that
\* leaves the modification time alone is not what the statement is about.
SameTimeOtherContent(k) == Rows(k) # <<>> /\ mtimes[k] = files[k].mtime

\* C28: once a refresh(force=false) returns for a marketplace whose file
\* exists and is loadable, the snapshot holds the rows of that file; in
\* particular a file that went missing (the snapshot was emptied) and came
\* back with the modification time recorded at the last successful load is
\* loaded again and the snapshot is not left empty.
C28_RestoredFileIsReloaded ==
  (Returning /\ ~me.force /\ ~me.raised /\ ~touched) =>
     \A k \in Keys :
        (files[k].exists /\ LoadFile(k).err = "") =>
           Rows(k) = LoadFile(k).rows \/ SameTimeOtherContent(k)

(***************************************************************************)
(* The float-based VAT function of the application (calculate_kdv_api,     *)
(* src/app.py), beside the decimal calculator.  A price is a number of     *)
(* thousandths and a rate a number of thousandths of a percent, as for the *)
(* decimal calculator; the figures are exact quotients, and each           *)
(* round(x, 2) takes an x that is exactly halfway to the neighbour its     *)
(* entry in tie names.                                                     *)
(***************************************************************************)
HalfCent == R(5, 1000)

\* round_value
RoundValue(value, method, tie) ==
  IF method = "up" THEN Round2(Plus(value, HalfCent), tie)
  ELSE IF method = "down" THEN Round2(Minus(value, HalfCent), tie)
  ELSE Round2(value, tie)

KdvFailure(what) ==
  [success |-> FALSE, error |-> what, priceExclVat |-> 0, vatAmount |-> 0,
   priceInclVat |-> 0, withheld |-> FALSE, withholdingAmount |-> 0, payableVat |-> 0]

\* calculate_kdv_api
CalculateKdvApi(direction, amount, percent, withholding_rate, rounding_method, tie) ==
  LET price == R(amount, 1000)
      rate == R(percent, 1000)
      fraction == Over(rate, Hundred)
      excl == IF direction = "add" THEN price ELSE Over(price, Plus(R(1, 1), fraction))
      vat == IF direction = "add" THEN Times(price, fraction) ELSE Minus(price, excl)
      incl == IF direction = "add" THEN Plus(price, vat) ELSE price
      vat_amount == RoundValue(vat, rounding_method, tie.vat)
      withheld == withholding_rate # NoWithholding /\ withholding_rate # <<>>
      ratio == ApiWithholding(withholding_rate)
      withholding_amount == Times(R(vat_amount, 100), R(ratio.num, ratio.den))
      payable_vat == Minus(R(vat_amount, 100), withholding_amount)
  IN IF AtMost(price, R(0, 1)) THEN KdvFailure("price")
     ELSE IF Below(rate, R(0, 1)) \/ Below(Hundred, rate) THEN KdvFailure("rate")
     ELSE IF withheld /\ ratio.err # "" THEN KdvFailure("withholding")
     ELSE [success |-> TRUE, error |-> "",
           priceExclVat |-> RoundValue(excl, rounding_method, tie.excl),
           vatAmount |-> vat_amount,
           priceInclVat |-> RoundValue(incl, rounding_method, tie.incl),
           withheld |-> withheld,
           withholdingAmount |->
             IF withheld THEN RoundValue(withholding_amount, rounding_method, tie.withholding)
             ELSE 0,
           payableVat |->
             IF withheld THEN RoundValue(payable_vat, rounding_method, tie.payable) ELSE 0]

(***************************************************************************)
(* The same request served by both.                                        *)
(***************************************************************************)
ServedWithholdings == {NoWithholding, <<"7", "/", "1", "0">>, <<"0", ".", "7">>}

ServeInit ==
  /\ Still
  /\ cPc = "serve"
  /\ cRows = <<>>
  /\ cOut = <<>>
  /\ cArgs \in [direction : {"add", "remove"},
                amount : {a \in 1..MaxAmount : a % 5 = 0},
                rate : Rates, rounding : Roundings, w : ServedWithholdings,
                tie : [excl : TieDirections, vat : TieDirections, incl : TieDirections,
                       withholding : TieDirections, payable : TieDirections]]

Serve ==
  /\ cPc = "serve"
  /\ cOut' = [app |-> CalculateKdvApi(cArgs.direction, cArgs.amount, cArgs.rate, cArgs.w,
                                      cArgs.rounding, cArgs.tie),
              kdv |-> IF cArgs.direction = "add"
                      THEN AddVat(cArgs.amount, cArgs.rate, cArgs.w, cArgs.rounding)
                      ELSE RemoveVat(cArgs.amount, cArgs.rate, cArgs.w, cArgs.rounding)]
  /\ cPc' = "served"
  /\ UNCHANGED <<cRows, cArgs>>
  /\ UNCHANGED normVars
  /\ UNCHANGED cacheVars

ServeNext == Serve

SpecServe == ServeInit /\ [][ServeNext]_vars

(***************************************************************************)
(* Claims about the two VAT calculators (checked under SpecServe and       *)
(* SpecVat).                                                               *)
(***************************************************************************)
\* The common inputs: a price > 0 with at most two decimals and a whole
\* percent from 1 to 100 (the withholdings served are ratios within [0,1]).
CommonInput ==
  /\ cArgs.amount > 0
  /\ cArgs.amount % 10 = 0
  /\ cArgs.rate % 1000 = 0
  /\ cArgs.rate >= 1000
  /\ cArgs.rate <= 100 * 1000

\* C29: on their common inputs, for either direction and either rounding
\* mode, calculate_kdv_api and add_vat / remove_vat return the same
\* priceExclVat, vatAmount and priceInclVat, and with a withholding the same
\* withholdingAmount and payableVat.
C29_FloatAndDecimalVatAgree ==
  (cPc = "served" /\ CommonInput) =>
     /\ cOut.app.success
     /\ cOut.kdv.err = ""
     /\ cOut.app.priceExclVat = cOut.kdv.price_excl_vat
     /\ cOut.app.vatAmount = cOut.kdv.vat_amount
     /\ cOut.app.priceInclVat = cOut.kdv.price_incl_vat
     /\ cOut.app.withheld =>
           /\ cOut.app.withholdingAmount = cOut.kdv.withholding_amount
           /\ cOut.app.payableVat = cOut.kdv.payable_vat

\* priceExclVat + vatAmount = priceInclVat on the rounded figures
LedgerConsistent(res) == res.price_excl_vat + res.vat_amount = res.price_incl_vat

\* C30: every VATResult of add_vat, remove_vat and from_vat_amount is
\* ledger-consistent on its rounded figures, for an input amount with any
\* number of decimals, every rate and both rounding modes.
C30_VatResultLedgerConsistent ==
  /\ cPc = "added" => LedgerConsistent(cOut.added)
  /\ cPc = "removed" => LedgerConsistent(cOut.added) /\ LedgerConsistent(cOut.back)
  /\ (cPc = "derived" /\ cOut.res.err = "") => LedgerConsistent(cOut.res)

====
